---- MODULE Spec2Model ----
(***************************************************************************)
(* A model of the BitTorrent downloader: the download scheduler            *)
(* (download_command, src/src/main.rs), the peer session (src/src/peer.rs) *)
(* and the metainfo's piece arithmetic (src/src/torrent.rs).               *)
(*                                                                         *)
(* Byte strings are abstracted: a block of piece data is either the true   *)
(* bytes of the torrent at that place or a corrupted block of the same     *)
(* length; SHA-1 is modelled as collision free.  Lengths, offsets, piece   *)
(* indices, message types and frame lengths are the program's numbers.     *)
(***************************************************************************)
EXTENDS Integers, Sequences, FiniteSets, TLC

\* ------------------------------------------------------------------ bounds
\* The largest peer list the tracker returns, and the largest piece count.
MaxPeers == 2
MaxPieces == 2

\* ------------------------------------------------------- program constants
BLOCK_SIZE == 16384
BLOCK_HEADER_LENGTH == 8
MAX_LENGTH == BLOCK_SIZE + BLOCK_HEADER_LENGTH

\* enum MessageType, as u8
Choke == 0
Unchoke == 1
Interested == 2
PiecesBitfield == 5
Block == 6
Piece == 7

Min(a, b) == IF a < b THEN a ELSE b
Max(a, b) == IF a > b THEN a ELSE b
Last(s) == s[Len(s)]
Front(s) == SubSeq(s, 1, Len(s) - 1)
Range(s) == {s[i] : i \in DOMAIN s}

\* The number of block numbers after which block_no * BLOCK_SIZE leaves u32:
\* 2^32 / BLOCK_SIZE, written so that no number here exceeds 31 bits.
WrapBlocks == (65536 \div BLOCK_SIZE) * 65536

\* ------------------------------------------------------------- torrent.rs
\* The torrents parse_torrent accepts that are modelled: a single file,
\* piece_length <= length, ceil(length / piece_length) pieces, the last piece
\* of a torrent of several pieces short.  Pieces of one block come in
\* torrents of up to MaxPieces pieces; pieces of two blocks (a full block and
\* a remainder) in torrents of one piece and of two.
Torrent(pl, n) == [piece_length |-> pl, length |-> n * pl - (IF n > 1 THEN pl \div 2 ELSE 0)]
Torrents ==
    {Torrent(10000, n) : n \in 1..MaxPieces} \cup {Torrent(20000, n) : n \in 1..2}

pieces_count(t) == (t.length + t.piece_length - 1) \div t.piece_length

\* The bytes of the payload between two offsets, as an abstract value, and
\* the same span corrupted.
TrueBytes(index, begin, length) == [index |-> index, begin |-> begin, length |-> length, good |-> TRUE]
BadBytes(index, begin, length) == [index |-> index, begin |-> begin, length |-> length, good |-> FALSE]

\* SHA-1, collision free: the digest stands for the bytes digested.
Sha1(bytes) == bytes

RECURSIVE TrueBlocks(_, _, _)
TrueBlocks(index, begin, size) ==
    IF begin >= size THEN <<>>
    ELSE <<TrueBytes(index, begin, Min(BLOCK_SIZE, size - begin))>>
         \o TrueBlocks(index, begin + BLOCK_SIZE, size)

\* The PieceInfo get_piece_info builds for index < pieces count; the u32
\* arithmetic does not wrap for an accepted torrent (index * piece_length <
\* length).
PieceInfo(t, index) ==
    LET piece_start == index * t.piece_length
        left_size == t.length - piece_start
        piece_length == Min(left_size, t.piece_length)
    IN  [index |-> index,
         length |-> piece_length,
         hash |-> Sha1(TrueBlocks(index, 0, piece_length)),
         file_start_pos |-> index * t.piece_length]

InvalidIndex == [tag |-> "Err", kind |-> "invalid_index"]
SomePieceInfo(info) == [tag |-> "Ok", info |-> info]

\* get_piece_info with the range test off by one
get_piece_info_off_by_one(t, index) ==
    IF index > pieces_count(t) THEN InvalidIndex ELSE SomePieceInfo(PieceInfo(t, index))

\* TorrentInfo::get_piece_info: an error for index >= pieces.len(), the
\* PieceInfo otherwise (pieces.len() is pieces_count of an accepted torrent).
get_piece_info(t, index) ==
    IF index >= pieces_count(t) THEN InvalidIndex ELSE SomePieceInfo(PieceInfo(t, index))

\* TorrentInfo::get_all_pieces_info: every PieceInfo, in index order.
get_all_pieces_info(t) == [i \in 1..pieces_count(t) |-> get_piece_info(t, i - 1).info]

\* A u32 too large for one machine integer of the checker is kept as two
\* 16-bit limbs, value = hi * 2^16 + lo.  A sum may carry out of the high
\* limb (hi >= 2^16): that is the overflow of the u32 operation.
Limb == 2 ^ 16
U32(hi, lo) == [hi |-> hi, lo |-> lo]
Small(n) == U32(0, n)
WAdd(a, b) == U32(a.hi + b.hi + (a.lo + b.lo) \div Limb, (a.lo + b.lo) % Limb)
WOverflows(a) == a.hi >= Limb
WWrap(a) == U32(a.hi % Limb, a.lo)
WLess(a, b) == a.hi < b.hi \/ (a.hi = b.hi /\ a.lo < b.lo)
\* a - b for a >= b
WSub(a, b) ==
    IF a.lo >= b.lo THEN U32(a.hi - b.hi, a.lo - b.lo)
    ELSE U32(a.hi - b.hi - 1, a.lo + Limb - b.lo)
\* a - 1 in u32, wrapped when a = 0
WPred(a) == IF a = Small(0) THEN U32(Limb - 1, Limb - 1) ELSE WSub(a, Small(1))
\* a / b for b > 0, the quotient a small number
RECURSIVE WDiv(_, _)
WDiv(a, b) == IF WLess(a, b) THEN 0 ELSE 1 + WDiv(WSub(a, b), b)

ParseOk == [tag |-> "Ok", kind |-> ""]
ParseErr(kind) == [tag |-> "Err", kind |-> kind]
ParsePanic(kind) == [tag |-> "Panic", kind |-> kind]

\* TorrentInfo::is_single_file
is_single_file(info) == info.torrent_type = "SingleFile"

\* TorrentInfo::get_length: the length of a single file, todo!() otherwise
get_length(info) ==
    IF info.torrent_type = "SingleFile" THEN ParseOk ELSE ParsePanic("todo")

\* parse_torrent on the decoded metainfo `data`: its torrent type (or that
\* serde matched no Torrent), `length` and `piece length` as u32 and the
\* number of 20-byte hashes in `pieces`.  length + piece_length - 1 and the
\* division are u32 operations: an overflow panics in a build with overflow
\* checks and wraps in one without, a division by zero panics in both.  The
\* operator gives the set of results the builds can produce.
parse_torrent(data) ==
    IF data.torrent_type = "undecodable" THEN {ParseErr("decode")}
    ELSE IF get_length(data).tag = "Panic" THEN {get_length(data)}
    ELSE IF WLess(data.length, data.piece_length) THEN {ParseErr("piece_length_larger")}
    ELSE LET sum == WAdd(data.length, data.piece_length)
             underflows == WWrap(sum) = Small(0)
             dividend == WPred(WWrap(sum))
             checked == IF WOverflows(sum) \/ underflows
                        THEN {ParsePanic("overflow")} ELSE {}
             unchecked ==
                IF data.piece_length = Small(0) THEN ParsePanic("divide_by_zero")
                ELSE LET expected_piece_count == WDiv(dividend, data.piece_length) IN
                     IF data.pieces # expected_piece_count THEN ParseErr("count")
                     ELSE IF data.pieces = 0 THEN ParseErr("no_pieces")
                     ELSE ParseOk
         IN  checked \cup {unchecked}

\* ---------------------------------------------------------------- peer.rs
NoneParams == [tag |-> "None", start |-> 0, length |-> 0]
PanicParams == [tag |-> "Panic", start |-> 0, length |-> 0]
SomeParams(s, l) == [tag |-> "Some", start |-> s, length |-> l]

\* Peer::next_block_params.  block_no * BLOCK_SIZE is a u32 product: when it
\* leaves u32 a build with overflow checks panics and one without wraps
\* (block_no * 2^14 mod 2^32 = (block_no mod 2^18) * 2^14).
\* The operator gives the set of results the builds can produce.
next_block_params(block_no, piece_size) ==
    LET block_start == (block_no % WrapBlocks) * BLOCK_SIZE
        result == IF block_start >= piece_size THEN NoneParams
                  ELSE LET left_size == piece_size - block_start
                           length == Min(left_size, BLOCK_SIZE)
                       IN  SomeParams(block_start, length)
    IN  IF block_no >= WrapBlocks THEN {PanicParams, result} ELSE {result}

\* piece_exists counting the bits of a byte from the least significant
piece_exists_lsb_first(piece_index, pieces_bitmap) ==
    LET byte_key == piece_index \div 8
        bit_no == piece_index % 8
    IN  IF byte_key + 1 > Len(pieces_bitmap) THEN FALSE
        ELSE (pieces_bitmap[byte_key + 1] \div (2 ^ bit_no)) % 2 = 1

\* piece_exists: bit (7 - index % 8) of byte index / 8, false past the end.
piece_exists(piece_index, pieces_bitmap) ==
    LET byte_key == piece_index \div 8
        bit_no == 7 - (piece_index % 8)
    IN  IF byte_key + 1 > Len(pieces_bitmap) THEN FALSE
        ELSE (pieces_bitmap[byte_key + 1] \div (2 ^ bit_no)) % 2 = 1

\* A u8 bitfield payload per peer: nothing, all zero, piece 0 only, pieces 0..2.
Bitfields == {<<>>, <<0>>, <<0, 0>>, <<128>>, <<224>>}

NoBytes == [index |-> 0, begin |-> 0, length |-> 0, good |-> TRUE]

\* A message payload: `len` bytes, which are a bitfield (bits) or the 8-byte
\* header (index, begin) and the block of a piece message.
Payload(len, bits, index, begin, block) ==
    [len |-> len, bits |-> bits, index |-> index, begin |-> begin, block |-> block]
EmptyPayload == Payload(0, <<>>, 0, 0, NoBytes)
BitfieldPayload(bits) == Payload(Len(bits), bits, 0, 0, NoBytes)
PiecePayload(index, begin, block) == Payload(BLOCK_HEADER_LENGTH + block.length, <<>>, index, begin, block)

\* What arrives on the socket when a frame is read: the 4-byte length prefix,
\* the type byte and the payload, or a failed read (timeout, closed socket).
Frame(type, payload) == [io |-> "ok", length |-> payload.len + 1, type |-> type, payload |-> payload]
KeepAlive == [io |-> "ok", length |-> 0, type |-> 0, payload |-> EmptyPayload]
Oversize(type) == [io |-> "ok", length |-> MAX_LENGTH + 2, type |-> type, payload |-> EmptyPayload]
ReadFails == [io |-> "fail", length |-> 0, type |-> 0, payload |-> EmptyPayload]

\* A Result: Ok(data), Err(error of some kind) or a panic; `who` is the
\* worker task the error value was made in, 0 outside the workers.
Ok(data) == [tag |-> "Ok", kind |-> "", who |-> 0, data |-> data]
Err(kind) == [tag |-> "Err", kind |-> kind, who |-> 0, data |-> EmptyPayload]
Panicked(kind) == [tag |-> "Panic", kind |-> kind, who |-> 0, data |-> EmptyPayload]
\* read_message without the test of the type byte
read_message_any_type(frame, expect_type) ==
    IF frame.io # "ok" THEN Err("io")
    ELSE IF ~(frame.length > 0) THEN Panicked("heartbeat")
    ELSE LET data_length == frame.length - 1 IN
         IF data_length > MAX_LENGTH THEN Err("too_large")
         ELSE Ok(frame.payload)

\* read_message turning away a payload of MAX_LENGTH bytes too
read_message_below_max(frame, expect_type) ==
    IF frame.io # "ok" THEN Err("io")
    ELSE IF ~(frame.length > 0) THEN Panicked("heartbeat")
    ELSE LET data_length == frame.length - 1 IN
         IF data_length >= MAX_LENGTH THEN Err("too_large")
         ELSE IF frame.type # expect_type THEN Err("wrong_type")
         ELSE Ok(frame.payload)
\* read_message: the length prefix, the size check, the type byte, the payload.
read_message(frame, expect_type) ==
    IF frame.io # "ok" THEN Err("io")
    ELSE IF ~(frame.length > 0) THEN Panicked("heartbeat")
    ELSE LET data_length == frame.length - 1 IN
         IF data_length > MAX_LENGTH THEN Err("too_large")
         ELSE IF frame.type # expect_type THEN Err("wrong_type")
         ELSE Ok(frame.payload)

\* read_message: the sizes of its read_exact calls, in order: the 4-byte
\* length prefix, the type byte once the size check passed, the payload once
\* the type matched and if it is not empty.
read_message_reads(frame, expect_type) ==
    IF frame.io # "ok" \/ ~(frame.length > 0) THEN <<4>>
    ELSE LET data_length == frame.length - 1 IN
         IF data_length > MAX_LENGTH THEN <<4>>
         ELSE IF frame.type # expect_type THEN <<4, 1>>
         ELSE IF data_length > 0 THEN <<4, 1, data_length>>
         ELSE <<4, 1>>
\* The frames a peer may send where a message of type `expect` is read, given
\* the well-typed payloads it may carry.
FramesFor(expect, payloads) ==
    {Frame(expect, p) : p \in payloads}
        \cup {Frame(Choke, EmptyPayload), KeepAlive, Oversize(expect), ReadFails}

\* The 68 handshake bytes read back: length byte, protocol name, info hash,
\* peer id.
PROTOCOL_HEADER ==    \* "BitTorrent protocol"
    <<66, 105, 116, 84, 111, 114, 114, 101, 110, 116, 32, 112, 114, 111, 116, 111, 99, 111, 108>>
InfoHash == "info_hash"
HandshakeReply(length, header, info_hash) ==
    [io |-> "ok", length |-> length, header |-> header, info_hash |-> info_hash, peer_id |-> "remote"]
HandshakeReplies ==
    { HandshakeReply(Len(PROTOCOL_HEADER), PROTOCOL_HEADER, InfoHash),
      HandshakeReply(0, PROTOCOL_HEADER, InfoHash),
      HandshakeReply(Len(PROTOCOL_HEADER), [PROTOCOL_HEADER EXCEPT ![1] = 98], InfoHash),
      HandshakeReply(Len(PROTOCOL_HEADER), PROTOCOL_HEADER, "other_hash"),
      [HandshakeReply(0, <<>>, "") EXCEPT !.io = "fail"] }

\* validate_handshake without the test of the info hash
validate_handshake_any_hash(info_hash, handshake_message) ==
    IF handshake_message.length # Len(PROTOCOL_HEADER) THEN Err("bad_header_length")
    ELSE IF handshake_message.header # PROTOCOL_HEADER THEN Err("bad_header")
    ELSE Ok(EmptyPayload)

\* validate_handshake
validate_handshake(info_hash, handshake_message) ==
    IF handshake_message.length # Len(PROTOCOL_HEADER) THEN Err("bad_header_length")
    ELSE IF handshake_message.header # PROTOCOL_HEADER THEN Err("bad_header")
    ELSE IF handshake_message.info_hash # info_hash THEN Err("bad_info_hash")
    ELSE Ok(EmptyPayload)
\* The handshake as bytes.  HandshakeMessage is #[repr(C)] with fields of u8
\* and u8 arrays only: its bytes are its fields in declaration order with no
\* padding between them.
HASH_RAW_LENGTH == 20
PADDING == [i \in 1..8 |-> 0]
MY_PEER_ID ==    \* "00112233445566778899"
    <<48, 48, 49, 49, 50, 50, 51, 51, 52, 52, 53, 53, 54, 54, 55, 55, 56, 56, 57, 57>>
\* peer_id: MY_PEER_ID.as_bytes().try_into().unwrap() into [u8; PEER_ID_LEN]
PEER_ID_LEN == Len(MY_PEER_ID)
HandshakeMessage(length, header, padding, info_hash, peer_id) ==
    [length |-> length, header |-> header, padding |-> padding, info_hash |-> info_hash,
     peer_id |-> peer_id]

\* get_bytes_ref_of_struct_mut: the struct seen as size_of::<T>() bytes
get_bytes_ref_of_struct_mut(m) ==
    <<m.length>> \o m.header \o m.padding \o m.info_hash \o m.peer_id

\* The struct whose bytes were overwritten through that slice.
HandshakeMessageOfBytes(bytes) ==
    LET header_at == 1
        padding_at == header_at + Len(PROTOCOL_HEADER)
        info_hash_at == padding_at + Len(PADDING)
        peer_id_at == info_hash_at + HASH_RAW_LENGTH
    IN  HandshakeMessage(bytes[1],
                         SubSeq(bytes, header_at + 1, padding_at),
                         SubSeq(bytes, padding_at + 1, info_hash_at),
                         SubSeq(bytes, info_hash_at + 1, peer_id_at),
                         SubSeq(bytes, peer_id_at + 1, peer_id_at + PEER_ID_LEN))

\* What handshake did on the socket, in order, its result and the peer id it
\* returns with Ok.
SocketWrite(bytes) == [op |-> "write_all", bytes |-> bytes]
SocketFlush == [op |-> "flush", bytes |-> <<>>]
SocketRead(bytes) == [op |-> "read_exact", bytes |-> bytes]
HandshakeResult(result, peer_id, io) == [result |-> result, peer_id |-> peer_id, io |-> io]

\* handshake: write_all and flush of our 68 bytes, read_exact of 68 bytes
\* into the same struct, validate_handshake, the peer id of the struct.
\* tcp tells whether the writes succeed and which bytes the peer sends.
handshake(tcp, info_hash) ==
    LET ours == HandshakeMessage(Len(PROTOCOL_HEADER), PROTOCOL_HEADER, PADDING, info_hash, MY_PEER_ID)
        handshake_bytes == get_bytes_ref_of_struct_mut(ours)
        size == Len(handshake_bytes)
        read == SubSeq(tcp.incoming, 1, size)
        handshake_message == HandshakeMessageOfBytes(read)
        valid == validate_handshake(info_hash, handshake_message)
    IN  IF ~tcp.write_all
        THEN HandshakeResult(Err("io"), <<>>, <<SocketWrite(handshake_bytes)>>)
        ELSE IF ~tcp.flush
        THEN HandshakeResult(Err("io"), <<>>, <<SocketWrite(handshake_bytes), SocketFlush>>)
        ELSE IF Len(tcp.incoming) < size
        THEN HandshakeResult(Err("io"), <<>>,
                <<SocketWrite(handshake_bytes), SocketFlush, SocketRead(tcp.incoming)>>)
        ELSE HandshakeResult(valid, IF valid.tag = "Ok" THEN handshake_message.peer_id ELSE <<>>,
                <<SocketWrite(handshake_bytes), SocketFlush, SocketRead(read)>>)
\* the test for no pieces missing the empty bitfield
no_pieces_nonempty(has_pieces) ==
    has_pieces # <<>> /\ \A i \in DOMAIN has_pieces : has_pieces[i] = 0

\* init_peer's test of the bitfield: has_pieces.iter().all(|x| *x == 0)
no_pieces(has_pieces) == \A i \in DOMAIN has_pieces : has_pieces[i] = 0
\* extract_block_from_response without the test of the piece index
extract_block_from_response_no_index(block_response, piece_index, block_start, block_length) ==
    LET expected_response_length == block_length + BLOCK_HEADER_LENGTH IN
    IF block_response.len # expected_response_length THEN Err("response_length")
    ELSE IF block_response.begin # block_start THEN Err("response_start")
    ELSE Ok(block_response)

\* Peer::extract_block_from_response: the length, the piece index and the
\* offset of the response against the request, then the block.
\* Peer::extract_block_from_response
extract_block_from_response(block_response, piece_index, block_start, block_length) ==
    LET expected_response_length == block_length + BLOCK_HEADER_LENGTH IN
    IF block_response.len # expected_response_length THEN Err("response_length")
    ELSE IF block_response.index # piece_index THEN Err("response_index")
    ELSE IF block_response.begin # block_start THEN Err("response_start")
    ELSE Ok(block_response)

\* The piece messages a peer may answer a block request with: the block
\* asked for, the same with corrupted bytes, one byte short, of another
\* piece, of another offset.
PiecePayloads(req) ==
    { PiecePayload(req.index, req.begin, TrueBytes(req.index, req.begin, req.length)),
      PiecePayload(req.index, req.begin, BadBytes(req.index, req.begin, req.length)),
      PiecePayload(req.index, req.begin, TrueBytes(req.index, req.begin, req.length - 1)),
      PiecePayload(req.index + 1, req.begin, TrueBytes(req.index + 1, req.begin, req.length)),
      PiecePayload(req.index, req.begin + 1, TrueBytes(req.index, req.begin + 1, req.length)) }

\* ------------------------------------------------- bdecode.rs, bencode.rs
\* Bytes are numbers 0..255 and inputs are sequences of them.
CharI == 105
CharL == 108
CharD == 100
CharE == 101
Colon == 58
Zero == 48
Nine == 57
Minus == 45
Plus == 43

IsDigit(b) == b >= Zero /\ b <= Nine
\* slice.splitn(2, |x| *x == byte): the index of the first `byte`, 0 if none
IndexOf(input, byte) ==
    IF \E i \in DOMAIN input : input[i] = byte
    THEN CHOOSE i \in DOMAIN input : input[i] = byte /\ \A j \in 1..(i - 1) : input[j] # byte
    ELSE 0
Slice(input, from, to) == SubSeq(input, from, to)
\* std::str::from_utf8 on the bytes used here: ASCII is valid, a byte 0xFF
\* is valid nowhere.
from_utf8(bytes) == \A i \in DOMAIN bytes : bytes[i] < 128

RECURSIVE DigitsValue(_)
DigitsValue(digits) ==
    IF digits = <<>> THEN 0
    ELSE 10 * DigitsValue(Front(digits)) + (Last(digits) - Zero)
AllDigits(digits) == digits # <<>> /\ \A i \in DOMAIN digits : IsDigit(digits[i])
NoNumber == [ok |-> FALSE, value |-> 0]
Number(n) == [ok |-> TRUE, value |-> n]
\* str::parse::<usize>: an optional '+', then one digit or more
parse_usize(num) ==
    LET digits == IF num # <<>> /\ Head(num) = Plus THEN Tail(num) ELSE num
    IN  IF AllDigits(digits) THEN Number(DigitsValue(digits)) ELSE NoNumber
\* str::parse::<i64>: an optional '+' or '-', then one digit or more (the
\* inputs here are short: none leaves i64)
parse_i64(num) ==
    LET signed == num # <<>> /\ Head(num) \in {Plus, Minus}
        digits == IF signed THEN Tail(num) ELSE num
    IN  IF ~AllDigits(digits) THEN NoNumber
        ELSE IF signed /\ Head(num) = Minus THEN Number(0 - DigitsValue(digits))
        ELSE Number(DigitsValue(digits))

\* common.rs Value: Int(i64), Str(&[u8]), List(Vec<Value>),
\* Dict(BTreeMap<&str, Value>) as its keys in ascending order and, at the
\* same positions, their values.
IntValue(int) == [kind |-> "Int", int |-> int, bytes |-> <<>>, items |-> <<>>, keys |-> <<>>]
StrValue(bytes) == [kind |-> "Str", int |-> 0, bytes |-> bytes, items |-> <<>>, keys |-> <<>>]
ListValue(list) == [kind |-> "List", int |-> 0, bytes |-> <<>>, items |-> list, keys |-> <<>>]
DictValue(keys, items) == [kind |-> "Dict", int |-> 0, bytes |-> <<>>, items |-> items, keys |-> keys]

\* Ord for &str: byte-wise lexicographic
RECURSIVE BytesLess(_, _)
BytesLess(a, b) ==
    IF b = <<>> THEN FALSE
    ELSE IF a = <<>> THEN TRUE
    ELSE IF Head(a) # Head(b) THEN Head(a) < Head(b)
    ELSE BytesLess(Tail(a), Tail(b))
InsertAt(seq, pos, x) == SubSeq(seq, 1, pos - 1) \o <<x>> \o SubSeq(seq, pos, Len(seq))
\* BTreeMap::insert: the value of a key already present is replaced
BTreeInsert(dict, key, value) ==
    IF \E i \in DOMAIN dict.keys : dict.keys[i] = key
    THEN LET i == CHOOSE k \in DOMAIN dict.keys : dict.keys[k] = key
         IN  DictValue(dict.keys, [dict.items EXCEPT ![i] = value])
    ELSE LET pos == 1 + Cardinality({k \in DOMAIN dict.keys : BytesLess(dict.keys[k], key)})
         IN  DictValue(InsertAt(dict.keys, pos, key), InsertAt(dict.items, pos, value))

Decoded(value, tail) == [ok |-> TRUE, value |-> value, tail |-> tail, err |-> ""]
DecodeErr(err) == [ok |-> FALSE, value |-> IntValue(0), tail |-> <<>>, err |-> err]

\* decode_string: <length>:<bytes>
decode_string(input) ==
    LET colon == IndexOf(input, Colon)
        length == parse_usize(Slice(input, 1, colon - 1))
        tail == Slice(input, colon + 1, Len(input))
    IN  IF colon = 0 THEN DecodeErr("delimiter not found")
        ELSE IF ~from_utf8(Slice(input, 1, colon - 1)) THEN DecodeErr("length not utf8")
        ELSE IF ~length.ok THEN DecodeErr("length not a number")
        ELSE IF length.value > Len(tail) THEN DecodeErr("string too long")
        ELSE Decoded(StrValue(Slice(tail, 1, length.value)),
                     Slice(tail, length.value + 1, Len(tail)))

\* decode_int: i<number>e
decode_int(input) ==
    LET rest == Tail(input)
        e == IndexOf(rest, CharE)
        num == Slice(rest, 1, e - 1)
        parsed == parse_i64(num)
    IN  IF e = 0 THEN DecodeErr("end of integer not found")
        ELSE IF ~from_utf8(num) THEN DecodeErr("integer not utf8")
        ELSE IF ~parsed.ok THEN DecodeErr("invalid int")
        ELSE Decoded(IntValue(parsed.value), Slice(rest, e + 1, Len(rest)))

RECURSIVE decode_value_inner(_), decode_list_loop(_, _), decode_dict_loop(_, _)
\* decode_list: the loop over the elements up to 'e'
decode_list_loop(input, list) ==
    IF input = <<>> THEN DecodeErr("list does not have an end")
    ELSE IF Head(input) = CharE THEN Decoded(ListValue(list), Tail(input))
    ELSE LET r == decode_value_inner(input) IN
         IF ~r.ok THEN r ELSE decode_list_loop(r.tail, Append(list, r.value))
decode_list(input) == decode_list_loop(Tail(input), <<>>)

\* decode_dict: the loop over the key-value pairs up to 'e'
decode_dict_loop(input, dict) ==
    IF input = <<>> THEN DecodeErr("dict does not have an end")
    ELSE IF Head(input) = CharE THEN Decoded(dict, Tail(input))
    ELSE LET key == decode_value_inner(input) IN
         IF ~key.ok THEN key
         ELSE IF key.value.kind # "Str" THEN DecodeErr("dict key is not a string")
         ELSE IF ~from_utf8(key.value.bytes) THEN DecodeErr("dict key is not utf8")
         ELSE LET r == decode_value_inner(key.tail) IN
              IF ~r.ok THEN r
              ELSE decode_dict_loop(r.tail, BTreeInsert(dict, key.value.bytes, r.value))
decode_dict(input) == decode_dict_loop(Tail(input), DictValue(<<>>, <<>>))

decode_value_inner(input) ==
    IF input = <<>> THEN DecodeErr("empty input")
    ELSE LET first == Head(input) IN
         IF first = CharI THEN decode_int(input)
         ELSE IF IsDigit(first) THEN decode_string(input)
         ELSE IF first = CharL THEN decode_list(input)
         ELSE IF first = CharD THEN decode_dict(input)
         ELSE DecodeErr("invalid format")

\* decode_value handing back the first value whatever follows it
decode_value_any_tail(input) == decode_value_inner(input)
\* decode_value: one value and nothing after it
decode_value(input) ==
    LET r == decode_value_inner(input) IN
    IF ~r.ok THEN r
    ELSE IF Len(r.tail) > 0 THEN DecodeErr("input is not completely consumed")
    ELSE r

\* format!("{}", n) of a number
RECURSIVE FormatNat(_)
FormatNat(n) == IF n < 10 THEN <<Zero + n>> ELSE FormatNat(n \div 10) \o <<Zero + (n % 10)>>
FormatInt(n) == IF n < 0 THEN <<Minus>> \o FormatNat(0 - n) ELSE FormatNat(n)

RECURSIVE bencode_value(_), bencode_list(_), bencode_dict(_, _)
bencode_list(list) ==
    IF list = <<>> THEN <<>> ELSE bencode_value(Head(list)) \o bencode_list(Tail(list))
bencode_dict(keys, items) ==
    IF keys = <<>> THEN <<>>
    ELSE FormatNat(Len(Head(keys))) \o <<Colon>> \o Head(keys)
         \o bencode_value(Head(items)) \o bencode_dict(Tail(keys), Tail(items))
\* bencode_value
bencode_value(value) ==
    CASE value.kind = "Int" -> <<CharI>> \o FormatInt(value.int) \o <<CharE>>
      [] value.kind = "Str" -> FormatNat(Len(value.bytes)) \o <<Colon>> \o value.bytes
      [] value.kind = "List" -> <<CharL>> \o bencode_list(value.items) \o <<CharE>>
      [] value.kind = "Dict" -> <<CharD>> \o bencode_dict(value.keys, value.items) \o <<CharE>>

\* ------------------------------------------------------------------ state
VARIABLES
    torrent,        \* the parsed metainfo: piece_length, length
    dpc,            \* download_command's position
    dresult,        \* what download_command returned
    peers_count,    \* peers.peers.len()
    threads_count,  \* cmp::min(pieces_count, peers_count)
    socket,         \* each task's peer address: its position in peers.peers, 0 before the spawn
    queue,          \* pieces: Arc<Mutex<Vec<PieceInfo>>>
    completed,      \* finished tasks the JoinSet has not handed out, in completion order
    joined,         \* the tasks join_next has returned, in that order
    cancelled,      \* the JoinSet was dropped: its tasks are aborted
    file_owner,     \* the worker holding the file mutex, 0 when free
    file_pos,       \* the file cursor
    file_size,      \* the size of the output file
    writes,         \* every write made to the output file
    pc,             \* each worker task's position
    wres,           \* each worker task's result
    has_pieces,     \* Peer.has_pieces
    trace,          \* what init_peer has sent and read on the connection
    nreq,           \* the block requests written to the connection
    cur,            \* the PieceInfo being downloaded
    block_no,       \* download_piece's block_no
    full_piece,     \* download_piece's full_piece
    outstanding,    \* block requests sent whose response has not been read
    popped,         \* every pop of the queue that returned a piece
    fn_in,          \* the arguments of a pure function under check
    fn_out          \* its result

dvars == <<torrent, dpc, dresult, peers_count, threads_count, socket, completed, joined, cancelled>>
fvars == <<file_owner, file_pos, file_size, writes>>
svars == <<has_pieces, trace, nreq, cur, block_no, full_piece, outstanding>>
fnvars == <<fn_in, fn_out>>
vars == <<dvars, fvars, svars, queue, popped, pc, wres, fnvars>>

Workers == 1..MaxPeers
NoPiece == [index |-> 0, length |-> 0, hash |-> <<>>, file_start_pos |-> 0]
NoResult == [tag |-> "None", kind |-> "", who |-> 0, data |-> EmptyPayload]
NoFn == [fn |-> "none", block_no |-> 0, piece_size |-> 0]

Init ==
    /\ torrent \in Torrents
    /\ dpc = "request_peers"
    /\ dresult = NoResult
    /\ peers_count = 0
    /\ threads_count = 0
    /\ socket = [w \in Workers |-> 0]
    /\ queue = <<>>
    /\ completed = <<>>
    /\ joined = <<>>
    /\ cancelled = FALSE
    /\ file_owner = 0
    /\ file_pos = 0
    /\ file_size = 0
    /\ writes = {}
    /\ pc = [w \in Workers |-> "unspawned"]
    /\ wres = [w \in Workers |-> NoResult]
    /\ has_pieces = [w \in Workers |-> <<>>]
    /\ trace = [w \in Workers |-> <<>>]
    /\ nreq = [w \in Workers |-> 0]
    /\ cur = [w \in Workers |-> NoPiece]
    /\ block_no = [w \in Workers |-> 0]
    /\ full_piece = [w \in Workers |-> <<>>]
    /\ outstanding = [w \in Workers |-> <<>>]
    /\ popped = <<>>
    /\ fn_in = NoFn
    /\ fn_out = NoneParams

\* ------------------------------------------------------- download_command
\* download_command up to request_peers: parse_torrent_from_file(..)?, the
\* bail for a torrent that is not single-file, and on to the info hash and
\* the tracker (Ok).
download_command_torrent(data) ==
    {IF parsed.tag # "Ok" THEN parsed
     ELSE IF ~is_single_file(data) THEN ParseErr("only_single_file")
     ELSE ParseOk : parsed \in parse_torrent(data)}

\* request_peers: the tracker answers with a peer list, or the request fails.
RequestPeers ==
    /\ dpc = "request_peers"
    /\ \/ \E n \in 0..MaxPeers :
            /\ peers_count' = n
            /\ dpc' = "create_file"
            /\ dresult' = dresult
       \/ /\ dpc' = "returned"
          /\ dresult' = Err("tracker")
          /\ peers_count' = peers_count
    /\ UNCHANGED <<torrent, threads_count, socket, completed, joined, cancelled>>
    /\ UNCHANGED <<fvars, svars, queue, popped, pc, wres, fnvars>>

\* create_file_with_reserved_size: seek to file_size - 1, write one zero byte.
CreateFile ==
    /\ dpc = "create_file"
    /\ \/ /\ file_pos' = torrent.length
          /\ file_size' = Max(file_size, (torrent.length - 1) + 1)
          /\ dpc' = "spawn"
          /\ dresult' = dresult
       \/ /\ dpc' = "returned"
          /\ dresult' = Err("create_file")
          /\ UNCHANGED <<file_pos, file_size>>
    /\ UNCHANGED <<torrent, peers_count, threads_count, socket, completed, joined, cancelled>>
    /\ UNCHANGED <<file_owner, writes, svars, queue, popped, pc, wres, fnvars>>

\* every task given the first address of the list
peers_index_first(thread_no) == 1

\* let socket = peers.peers[thread_no]: the position of the address in the
\* tracker's list, counted from 1
peers_index(thread_no) == thread_no + 1

\* The work queue is built and threads_count tasks are spawned, task
\* thread_no on peers.peers[thread_no].
Spawn ==
    /\ dpc = "spawn"
    /\ queue' = get_all_pieces_info(torrent)
    /\ threads_count' = Min(pieces_count(torrent), peers_count)
    /\ pc' = [w \in Workers |-> IF w <= threads_count' THEN "connect" ELSE pc[w]]
    /\ socket' = [w \in Workers |-> IF w <= threads_count' THEN peers_index(w - 1) ELSE socket[w]]
    /\ dpc' = "join"
    /\ UNCHANGED <<torrent, dresult, peers_count, completed, joined, cancelled>>
    /\ UNCHANGED <<fvars, svars, popped, wres, fnvars>>
\* a join loop that drops a failed task's result and goes on
join_result_keep_going(result) == [return |-> FALSE, value |-> NoResult]

\* What the join loop does with one task result: an Ok lets the loop go on,
\* a failed task (an Err, or a JoinError of a task that panicked) is
\* returned by `?` at once, which drops the JoinSet.
join_result(result) ==
    IF result.tag = "Ok" THEN [return |-> FALSE, value |-> NoResult]
    ELSE [return |-> TRUE, value |-> result]

\* The positions at which a task is not suspended: not spawned, ended,
\* dropped, or running between init_peer or the file write and its next pop.
Running == {"unspawned", "done", "aborted", "pop"}
\* tasks that outlive the JoinSet (detached instead of aborted)
AbortsNothing(w) == FALSE

\* Dropping the JoinSet aborts its tasks: a task suspended at an await is
\* dropped there, with its connection, its locals and the file guard.
Aborts(w) == pc[w] \notin Running

\* while let Some(result) = join_set.join_next().await { ... }
JoinNext ==
    /\ dpc = "join"
    /\ Len(joined) < threads_count
    /\ completed # <<>>
    /\ LET w == Head(completed)
           r == join_result(wres[w])
       IN  /\ completed' = Tail(completed)
           /\ joined' = Append(joined, w)
           /\ IF r.return
              THEN /\ dpc' = "returned"
                   /\ dresult' = r.value
                   /\ cancelled' = TRUE
                   /\ file_owner' = 0
                   /\ pc' = [v \in Workers |-> IF Aborts(v) THEN "aborted" ELSE pc[v]]
                   /\ has_pieces' = [v \in Workers |-> IF Aborts(v) THEN <<>> ELSE has_pieces[v]]
                   /\ trace' = [v \in Workers |-> IF Aborts(v) THEN <<>> ELSE trace[v]]
                   /\ nreq' = [v \in Workers |-> IF Aborts(v) THEN 0 ELSE nreq[v]]
                   /\ cur' = [v \in Workers |-> IF Aborts(v) THEN NoPiece ELSE cur[v]]
                   /\ block_no' = [v \in Workers |-> IF Aborts(v) THEN 0 ELSE block_no[v]]
                   /\ full_piece' = [v \in Workers |-> IF Aborts(v) THEN <<>> ELSE full_piece[v]]
                   /\ outstanding' = [v \in Workers |-> IF Aborts(v) THEN <<>> ELSE outstanding[v]]
              ELSE UNCHANGED <<dpc, dresult, cancelled, file_owner, pc, svars>>
    /\ UNCHANGED <<torrent, peers_count, threads_count, socket>>
    /\ UNCHANGED <<file_pos, file_size, writes, queue, popped, wres, fnvars>>

\* join_next returned None: every task was joined, the command returns Ok.
ReturnOk ==
    /\ dpc = "join"
    /\ Len(joined) = threads_count
    /\ dpc' = "returned"
    /\ dresult' = Ok(EmptyPayload)
    /\ UNCHANGED <<torrent, peers_count, threads_count, socket, completed, joined, cancelled>>
    /\ UNCHANGED <<fvars, svars, queue, popped, pc, wres, fnvars>>

\* ------------------------------------------------------------ worker task
\* The error a task returns, by the kind of failure it reports: the network
\* (connect, read, write, timeout), the peer's protocol, a piece's hash, the
\* output file, a peer holding no piece at all, a peer lacking the piece.
error_class(kind) ==
    CASE kind \in {"connect", "io"} -> "network"
      [] kind \in {"bad_header_length", "bad_header", "bad_info_hash", "too_large",
                   "wrong_type", "response_length", "response_index", "response_start"}
            -> "protocol"
      [] kind = "hash" -> "integrity"
      [] kind \in {"seek", "write"} -> "file"
      [] OTHER -> kind

\* The value a task ends with: Ok(()), or the error (or panic) made in it.
TaskResult(w, result) ==
    IF result.tag = "Ok" THEN Ok(EmptyPayload)
    ELSE [result EXCEPT !.who = w, !.kind = error_class(@)]

\* A task ends: its result waits in the JoinSet in completion order.  Its
\* connection, and the Peer if init_peer made one, are dropped with it.
Finish(w, result) ==
    /\ pc' = [pc EXCEPT ![w] = "done"]
    /\ wres' = [wres EXCEPT ![w] = TaskResult(w, result)]
    /\ completed' = Append(completed, w)
    /\ trace' = [trace EXCEPT ![w] = <<>>]
    /\ has_pieces' = [has_pieces EXCEPT ![w] = <<>>]
    /\ nreq' = [nreq EXCEPT ![w] = 0]
    /\ outstanding' = [outstanding EXCEPT ![w] = <<>>]

\* init_peer goes on to its next suspension point, `done` on the connection.
Step(w, place, done) ==
    /\ pc' = [pc EXCEPT ![w] = place]
    /\ trace' = [trace EXCEPT ![w] = @ \o done]
    /\ UNCHANGED <<wres, completed, nreq, outstanding>>

Goto(w, place) ==
    /\ pc' = [pc EXCEPT ![w] = place]
    /\ UNCHANGED <<wres, completed, trace>>

\* What init_peer did on the connection: a handshake or a message of a type,
\* sent (tx) or read (rx).
Tx(kind, type) == [dir |-> "tx", kind |-> kind, type |-> type]
Rx(kind, type) == [dir |-> "rx", kind |-> kind, type |-> type]

dfixed == <<torrent, dpc, dresult, peers_count, threads_count, socket, joined, cancelled>>
locals == <<cur, block_no, full_piece>>

\* create_connection
Connect(w) ==
    /\ pc[w] = "connect" /\ ~cancelled
    /\ \/ Step(w, "send_handshake", <<>>) /\ UNCHANGED has_pieces
       \/ Finish(w, Err("connect"))
    /\ UNCHANGED <<dfixed, fvars, locals, queue, popped, fnvars>>

\* handshake: tcp.write_all(handshake_bytes), tcp.flush()
SendHandshake(w) ==
    /\ pc[w] = "send_handshake" /\ ~cancelled
    /\ \/ Step(w, "read_handshake", <<Tx("handshake", 0)>>) /\ UNCHANGED has_pieces
       \/ Finish(w, Err("io"))
    /\ UNCHANGED <<dfixed, fvars, locals, queue, popped, fnvars>>

\* handshake: tcp.read_exact(handshake_bytes), validate_handshake
ReadHandshake(w) ==
    /\ pc[w] = "read_handshake" /\ ~cancelled
    /\ \E reply \in HandshakeReplies :
        LET r == IF reply.io # "ok" THEN Err("io") ELSE validate_handshake(InfoHash, reply) IN
        IF r.tag = "Ok"
        THEN Step(w, "read_bitfield", <<Rx("handshake", 0)>>) /\ UNCHANGED has_pieces
        ELSE Finish(w, r)
    /\ UNCHANGED <<dfixed, fvars, locals, queue, popped, fnvars>>

\* init_peer: read_message(PiecesBitfield), then the test for no pieces
ReadBitfield(w) ==
    /\ pc[w] = "read_bitfield" /\ ~cancelled
    /\ \E frame \in FramesFor(PiecesBitfield, {BitfieldPayload(b) : b \in Bitfields}) :
        LET r == read_message(frame, PiecesBitfield) IN
        IF r.tag # "Ok" THEN Finish(w, r)
        ELSE IF no_pieces(r.data.bits) THEN Finish(w, Err("no_pieces"))
        ELSE /\ has_pieces' = [has_pieces EXCEPT ![w] = r.data.bits]
             /\ Step(w, "send_interested", <<Rx("message", frame.type)>>)
    /\ UNCHANGED <<dfixed, fvars, locals, queue, popped, fnvars>>

\* init_peer: write_message(Interested)
SendInterested(w) ==
    /\ pc[w] = "send_interested" /\ ~cancelled
    /\ \/ Step(w, "read_unchoke", <<Tx("message", Interested)>>) /\ UNCHANGED has_pieces
       \/ Finish(w, Err("io"))
    /\ UNCHANGED <<dfixed, fvars, locals, queue, popped, fnvars>>

\* init_peer: read_message(Unchoke); the Peer is made and init_peer returns
ReadUnchoke(w) ==
    /\ pc[w] = "read_unchoke" /\ ~cancelled
    /\ \E frame \in FramesFor(Unchoke, {EmptyPayload}) :
        LET r == read_message(frame, Unchoke) IN
        IF r.tag # "Ok" THEN Finish(w, r)
        ELSE Step(w, "pop", <<Rx("message", frame.type)>>) /\ UNCHANGED has_pieces
    /\ UNCHANGED <<dfixed, fvars, locals, queue, popped, fnvars>>
\* pop_mutex_vec reading the last element without removing it
pop_mutex_vec_peek(mutex_vec) ==
    IF mutex_vec = <<>>
    THEN [some |-> FALSE, item |-> NoPiece, rest |-> mutex_vec]
    ELSE [some |-> TRUE, item |-> Last(mutex_vec), rest |-> mutex_vec]

\* pop_mutex_vec reporting an empty queue while one piece is left
pop_mutex_vec_stops_early(mutex_vec) ==
    IF Len(mutex_vec) <= 1
    THEN [some |-> FALSE, item |-> NoPiece, rest |-> mutex_vec]
    ELSE [some |-> TRUE, item |-> Last(mutex_vec), rest |-> Front(mutex_vec)]

\* pop_mutex_vec handing out the last element and keeping it, at the front
pop_mutex_vec_requeues(mutex_vec) ==
    IF mutex_vec = <<>>
    THEN [some |-> FALSE, item |-> NoPiece, rest |-> mutex_vec]
    ELSE [some |-> TRUE, item |-> Last(mutex_vec), rest |-> <<Last(mutex_vec)>> \o Front(mutex_vec)]

\* pop_mutex_vec: lock the mutex, Vec::pop (the last element, if any)
pop_mutex_vec(mutex_vec) ==
    IF mutex_vec = <<>>
    THEN [some |-> FALSE, item |-> NoPiece, rest |-> mutex_vec]
    ELSE [some |-> TRUE, item |-> Last(mutex_vec), rest |-> Front(mutex_vec)]
\* has_piece answering yes whatever the bitfield holds
has_piece_always(w, piece_index) == TRUE

\* Peer::has_piece
has_piece(w, piece_index) == piece_exists(piece_index, has_pieces[w])

\* download_piece's locals go out of scope
DropLocals(w) ==
    /\ cur' = [cur EXCEPT ![w] = NoPiece]
    /\ block_no' = [block_no EXCEPT ![w] = 0]
    /\ full_piece' = [full_piece EXCEPT ![w] = <<>>]

Locals(w, piece_info, bno, piece) ==
    /\ cur' = [cur EXCEPT ![w] = piece_info]
    /\ block_no' = [block_no EXCEPT ![w] = bno]
    /\ full_piece' = [full_piece EXCEPT ![w] = piece]

\* a task that records its error and goes back to the queue
End_and_retry(w, result) ==
    IF result.tag = "Ok" THEN Finish(w, result) /\ DropLocals(w)
    ELSE /\ pc' = [pc EXCEPT ![w] = "pop"]
         /\ wres' = [wres EXCEPT ![w] = TaskResult(w, result)]
         /\ DropLocals(w)
         /\ UNCHANGED <<completed, trace, has_pieces, nreq, outstanding>>

\* The task ends after init_peer returned: `?` or the final Ok(()).
End(w, result) == Finish(w, result) /\ DropLocals(w)

\* The task reaches a suspension point of download_piece or of the file
\* write.  An aborted task is dropped there: its locals and its Peer are
\* gone and it yields no result.
Await(w, place, piece_info, bno, piece, pending) ==
    IF cancelled
    THEN /\ pc' = [pc EXCEPT ![w] = "aborted"]
         /\ DropLocals(w)
         /\ trace' = [trace EXCEPT ![w] = <<>>]
         /\ has_pieces' = [has_pieces EXCEPT ![w] = <<>>]
         /\ nreq' = [nreq EXCEPT ![w] = 0]
         /\ outstanding' = [outstanding EXCEPT ![w] = <<>>]
         /\ UNCHANGED <<wres, completed>>
    ELSE /\ Locals(w, piece_info, bno, piece)
         /\ Goto(w, place)
         /\ outstanding' = [outstanding EXCEPT ![w] = pending]
         /\ UNCHANGED <<has_pieces, nreq>>
\* a hash test that lets every piece through
hash_mismatch_never(actual_hash, piece_hash) == FALSE

\* download_piece: if actual_hash != piece_hash { bail!(..) }
hash_mismatch(actual_hash, piece_hash) == actual_hash # piece_hash

\* download_piece between two suspension points: the loop condition with
\* block_no blocks read into full_piece, and after the loop the SHA-1 test.
\* A piece that passes is kept in full_piece for the write.  `pending` are
\* the requests still unanswered on the connection.
BlockLoop(w, piece_info, bno, piece, pending) ==
    \E params \in next_block_params(bno, piece_info.length) :
        CASE params.tag = "Some" ->
                Await(w, "request", piece_info, bno, piece, pending)
          [] params.tag = "Panic" ->
                End(w, Panicked("overflow"))
          [] OTHER ->
                LET actual_hash == Sha1(piece) IN
                IF hash_mismatch(actual_hash, piece_info.hash)
                THEN End(w, Err("hash"))
                ELSE Await(w, "lock", piece_info, bno, piece, pending)

\* while let Some(piece_info) = pop_mutex_vec(pieces.deref()), and
\* download_piece up to its first write to the socket.  No suspension point
\* lies before the pop: a task whose JoinSet was dropped while it ran this
\* far still pops.
Pop(w) ==
    /\ pc[w] = "pop"
    /\ LET got == pop_mutex_vec(queue) IN
       /\ queue' = got.rest
       /\ IF ~got.some
          THEN /\ End(w, Ok(EmptyPayload))
               /\ UNCHANGED popped
          ELSE /\ popped' = Append(popped, [worker |-> w, index |-> got.item.index])
               /\ IF ~has_piece(w, got.item.index)
                  THEN End(w, Err("no_piece"))
                  ELSE BlockLoop(w, got.item, 0, <<>>, outstanding[w])
    /\ UNCHANGED <<dfixed, fvars, fnvars>>
\* download_piece writing every request before it reads a response
after_write_request_pipelined(more_blocks) == IF more_blocks THEN "request" ELSE "read_piece"

\* Where download_piece goes once a block request is written: it reads the
\* response, whether or not more blocks are to be requested.
after_write_request(more_blocks) == "read_piece"

\* download_piece: block_no += 1, write_message(Block, block_request)
SendRequest(w) ==
    /\ pc[w] = "request" /\ ~cancelled
    /\ \E params \in next_block_params(block_no[w], cur[w].length) :
        /\ params.tag = "Some"
        /\ \/ /\ block_no' = [block_no EXCEPT ![w] = @ + 1]
              /\ outstanding' = [outstanding EXCEPT ![w] =
                    Append(@, [index |-> cur[w].index, begin |-> params.start, length |-> params.length])]
              /\ nreq' = [nreq EXCEPT ![w] = @ + 1]
              /\ Goto(w, after_write_request(
                    \E p \in next_block_params(block_no[w] + 1, cur[w].length) : p.tag = "Some"))
              /\ UNCHANGED <<cur, full_piece, has_pieces>>
           \/ End(w, Err("io"))
    /\ UNCHANGED <<dfixed, fvars, queue, popped, fnvars>>

\* download_piece: read_message(Piece), extract_block_from_response,
\* full_piece.extend_from_slice(block), and on to the next suspension point.
\* The peer answers the oldest request it has not answered.
ReadPiece(w) ==
    /\ pc[w] = "read_piece" /\ ~cancelled
    /\ outstanding[w] # <<>>
    /\ \E frame \in FramesFor(Piece, PiecePayloads(Head(outstanding[w]))) :
       \E sent \in next_block_params(block_no[w] - 1, cur[w].length) :
        LET block_response == read_message(frame, Piece)
            block == extract_block_from_response(
                        block_response.data, cur[w].index, sent.start, sent.length)
        IN  /\ sent.tag = "Some"
            /\ IF block_response.tag # "Ok" THEN End(w, block_response)
               ELSE IF block.tag # "Ok" THEN End(w, block)
               ELSE BlockLoop(w, cur[w], block_no[w], Append(full_piece[w], block.data.block),
                              Tail(outstanding[w]))
    /\ UNCHANGED <<dfixed, fvars, queue, popped, fnvars>>

\* a file mutex that never makes a task wait
file_lock_free_always(owner) == TRUE

\* a file mutex that is never granted
file_lock_free_never(owner) == FALSE

\* tokio::sync::Mutex::lock: the future completes when no task holds the guard
file_lock_free(owner) == owner = 0

\* file.lock().await
LockFile(w) ==
    /\ pc[w] = "lock" /\ ~cancelled
    /\ file_lock_free(file_owner)
    /\ file_owner' = w
    /\ Goto(w, "seek")
    /\ UNCHANGED <<dfixed, file_pos, file_size, writes, svars, queue, popped, fnvars>>

\* file_guard.seek(SeekFrom::Start(file_start_pos))
Seek(w) ==
    /\ pc[w] = "seek" /\ ~cancelled
    /\ \/ /\ file_pos' = cur[w].file_start_pos
          /\ Goto(w, "write")
          /\ UNCHANGED <<file_owner, cur, block_no, full_piece, has_pieces, nreq, outstanding>>
       \/ /\ End(w, Err("seek"))
          /\ file_owner' = 0
          /\ UNCHANGED file_pos
    /\ UNCHANGED <<dfixed, file_size, writes, queue, popped, fnvars>>

\* What one call of write(&piece_data) may return for a buffer of len bytes:
\* Ok(n), n <= len, the length of the prefix it wrote.  The whole buffer, and
\* a proper prefix, stand for the values of n.
write_counts(len) == {len, len \div 2}

\* a guard that outlives the loop body
drop_file_guard_never(w) == w

\* drop(file_guard): the owner of the file mutex once task w dropped its guard
drop_file_guard(w) == 0

\* file_guard.write(&piece_data), whose count is not looked at;
\* drop(file_guard)
Write(w) ==
    /\ pc[w] = "write" /\ ~cancelled
    /\ \/ \E n \in write_counts(cur[w].length) :
            /\ writes' = writes \cup
                  {[worker |-> w, index |-> cur[w].index, pos |-> file_pos, len |-> n,
                    data |-> full_piece[w]]}
            /\ file_pos' = file_pos + n
            /\ file_size' = Max(file_size, file_pos + n)
            /\ Goto(w, "pop")
            /\ DropLocals(w)
            /\ UNCHANGED <<has_pieces, nreq, outstanding>>
       \/ /\ End(w, Err("write"))
          /\ UNCHANGED <<file_pos, file_size, writes>>
    /\ file_owner' = drop_file_guard(w)
    /\ UNCHANGED <<dfixed, queue, popped, fnvars>>

Worker(w) ==
    \/ Connect(w) \/ SendHandshake(w) \/ ReadHandshake(w) \/ ReadBitfield(w)
    \/ SendInterested(w) \/ ReadUnchoke(w) \/ Pop(w) \/ SendRequest(w)
    \/ ReadPiece(w) \/ LockFile(w) \/ Seek(w) \/ Write(w)

Next ==
    \/ RequestPeers \/ CreateFile \/ Spawn \/ JoinNext \/ ReturnOk
    \/ \E w \in Workers : Worker(w)

Spec == Init /\ [][Next]_vars

\* ------------------------------------------- well-behaved peers, fair tasks
\* The tracker names at least one peer, and every peer a task contacts
\* accepts the connection, completes the setup, holds every piece and answers
\* each request with the block asked for: no task ends with an error of the
\* network, of the protocol, of a hash or of a missing piece, or panics.
\* Creating, seeking and writing the output file may still fail.
GoodPeers ==
    /\ dresult.kind # "tracker"
    /\ dpc # "request_peers" => peers_count >= 1
    /\ \A w \in Workers :
        /\ wres[w].tag \in {"None", "Ok"} \/ (wres[w].tag = "Err" /\ wres[w].kind = "file")
        /\ has_pieces[w] # <<>> =>
              \A i \in 0..(pieces_count(torrent) - 1) : piece_exists(i, has_pieces[w])
        /\ \A k \in DOMAIN full_piece[w] : full_piece[w][k].good

\* download_command's own steps and a task's steps, with such peers
SchedulerLive == (RequestPeers \/ CreateFile \/ Spawn \/ JoinNext \/ ReturnOk) /\ GoodPeers'
WorkerLive(w) == Worker(w) /\ GoodPeers'
NextLive == SchedulerLive \/ \E w \in Workers : WorkerLive(w)

\* The runtime polls download_command and every task that can go on.
SpecLive ==
    /\ Init
    /\ [][NextLive]_vars
    /\ WF_vars(SchedulerLive)
    /\ \A w \in Workers : WF_vars(WorkerLive(w))
\* --------------------------------------------------- pure functions alone
\* The arguments next_block_params is checked on: block numbers around
\* 2^32 / BLOCK_SIZE and piece sizes around the block size.
BlockNos == {0, 1, 2, 3, WrapBlocks \div 2 - 1, WrapBlocks, WrapBlocks + 1}
PieceSizes == {1, 300, BLOCK_SIZE - 1, BLOCK_SIZE, BLOCK_SIZE + 1, 20000,
               2 * BLOCK_SIZE, 2 * BLOCK_SIZE + 1, 40000}

NextBlockParamsCalls ==
    {[fn |-> "call next_block_params", block_no |-> k, piece_size |-> sz] :
        k \in BlockNos, sz \in PieceSizes}

\* The arguments piece_exists is checked on: the bitfield of test_has_piece
\* among others, and indices inside a byte, across bytes and past the end.
Bitmaps == {<<>>, <<0>>, <<1>>, <<128>>, <<224, 144>>, <<0, 255>>, <<170, 85>>}
PieceIndexes == 0..17 \cup {100}
PieceExistsCalls ==
    {[fn |-> "call piece_exists", piece_index |-> k, pieces_bitmap |-> b] :
        k \in PieceIndexes, b \in Bitmaps}

\* The arguments get_piece_info is checked on: accepted single-file torrents
\* (those of test_get_piece_info among them) and indices up to past the end.
FnTorrents ==
    {[piece_length |-> pl, length |-> n] :
        pl \in {1, 100, BLOCK_SIZE}, n \in {1, 3, 100, 101, 250, 300, 40000}}
WellFormed(t) == t.piece_length <= t.length /\ pieces_count(t) <= 4
GetPieceInfoCalls ==
    {[fn |-> "call get_piece_info", t |-> t, index |-> i] :
        t \in {u \in FnTorrents : WellFormed(u)}, i \in 0..5}

\* The metainfo parse_torrent is checked on: single-file torrents with small
\* lengths and piece lengths (zero included), with values at the top of u32,
\* each with 0..3 hashes; torrents with `files`; and data serde rejects.
Metainfo(type, length, piece_length, pieces) ==
    [torrent_type |-> type, length |-> length, piece_length |-> piece_length, pieces |-> pieces]
SmallLengths == {Small(0), Small(1), Small(2), Small(3), Small(5)}
SmallPieceLengths == {Small(0), Small(1), Small(2), Small(3)}
LargeLengths == {U32(32768, 0), U32(65535, 65534), U32(65535, 65535)}
LargePieceLengths == {Small(0), U32(16384, 0), U32(32768, 0), U32(65535, 65535)}
Metainfos ==
    {Metainfo("SingleFile", n, pl, k) : n \in SmallLengths, pl \in SmallPieceLengths, k \in 0..3}
    \cup {Metainfo("SingleFile", n, pl, k) : n \in LargeLengths, pl \in LargePieceLengths, k \in 0..3}
    \cup {Metainfo(type, Small(0), Small(2), k) : type \in {"MultiFile", "undecodable"}, k \in 1..2}
ParseTorrentCalls ==
    {[fn |-> f, data |-> m] : f \in {"call parse_torrent", "call download_command"}, m \in Metainfos}

\* The inputs decode_value is checked on, as bytes.  Canonical bencode: among
\* them the values of test_parse, i0e, a negative integer, the empty list
\* and dict, strings holding ':', nested lists and dicts, and a dict whose
\* key is the one byte 0xFF.
CanonicalInputs ==
    { <<105, 48, 101>>,    \* i0e
      <<105, 45, 53, 50, 101>>,    \* i-52e
      <<105, 53, 50, 101>>,    \* i52e
      <<108, 101>>,    \* le
      <<100, 101>>,    \* de
      <<48, 58>>,    \* 0:
      <<50, 58, 97, 58>>,    \* 2:a:
      <<54, 58, 104, 101, 108, 108, 111, 58>>,    \* 6:hello:
      <<108, 49, 58, 97, 105, 53, 101, 101>>,    \* l1:ai5ee
      <<108, 108, 105, 49, 101, 101, 101>>,    \* lli1eee
      <<100, 49, 58, 97, 105, 49, 101, 49, 58, 98, 105, 50, 101, 101>>,    \* d1:ai1e1:bi2ee
      <<100, 49, 58, 97, 108, 101, 49, 58, 98, 100, 101, 101>>,    \* d1:ale1:bdee
      <<100, 49, 58, 255, 105, 48, 101, 101>>,    \* d1:\xFFi0ee
      <<108, 53, 58, 104, 101, 108, 108, 111, 105, 53, 50, 101, 101>>,    \* l5:helloi52ee
      <<100, 51, 58, 102, 111, 111, 51, 58, 98, 97, 114, 53, 58, 104, 101, 108, 108, 111, 105, 53, 50, 101, 101>> }    \* d3:foo3:bar5:helloi52ee

\* Integers that are not in canonical form, or not closed.
IntegerInputs ==
    { <<105, 101>>,    \* ie
      <<105, 45, 101>>,    \* i-e
      <<105, 45, 48, 101>>,    \* i-0e
      <<105, 48, 48, 101>>,    \* i00e
      <<105, 48, 53, 101>>,    \* i05e
      <<105, 45, 48, 53, 101>>,    \* i-05e
      <<105, 43, 53, 101>>,    \* i+5e
      <<105, 53>>,    \* i5
      <<105, 49, 45, 101>> }    \* i1-e

\* Dicts with keys out of order, with a key twice, with a key that is not a
\* byte string, and cut short.
DictInputs ==
    { <<100, 49, 58, 98, 105, 50, 101, 49, 58, 97, 105, 49, 101, 101>>,    \* d1:bi2e1:ai1ee
      <<100, 49, 58, 97, 105, 49, 101, 49, 58, 97, 105, 50, 101, 101>>,    \* d1:ai1e1:ai2ee
      <<100, 105, 49, 101, 105, 50, 101, 101>>,    \* di1ei2ee
      <<100, 108, 101, 105, 49, 101, 101>>,    \* dlei1ee
      <<100, 49, 58, 97, 101>>,    \* d1:ae
      <<100, 49, 58, 97, 105, 49, 101>> }    \* d1:ai1e

\* Inputs that are no bencoded value, or a value followed by more bytes.
MalformedInputs ==
    { <<>>,    \* 
      <<120>>,    \* x
      <<53, 58, 97, 98>>,    \* 5:ab
      <<49, 97>>,    \* 1a
      <<108>>,    \* l
      <<108, 105, 49, 101>>,    \* li1e
      <<105, 49, 101, 105, 50, 101>>,    \* i1ei2e
      <<49, 58, 97, 98>>,    \* 1:ab
      <<108, 101, 101>>,    \* lee
      <<100, 101, 48, 58>>,    \* de0:
      <<100>>,    \* d
      <<108, 108, 101>>,    \* lle
      <<49, 58>> }    \* 1:

DecodeValueCalls ==
    {[fn |-> "call decode_value", input |-> b] :
        b \in CanonicalInputs \cup IntegerInputs \cup DictInputs \cup MalformedInputs}

\* The sockets handshake is checked on: writes that succeed or fail, and as
\* the peer's bytes a good reply, good replies with reserved bits set or
\* with more bytes behind them, replies with another length byte, protocol
\* name or info hash, a reply one byte short and none at all.
TheInfoHash == [i \in 1..HASH_RAW_LENGTH |-> i]
RemotePeerId == [i \in 1..PEER_ID_LEN |-> 200 + i]
GoodReply ==
    get_bytes_ref_of_struct_mut(
        HandshakeMessage(Len(PROTOCOL_HEADER), PROTOCOL_HEADER, PADDING, TheInfoHash, RemotePeerId))
HandshakeIncoming ==
    { GoodReply,
      [GoodReply EXCEPT ![26] = 16],
      GoodReply \o <<0, 0, 0, 2, 5, 128>>,
      [GoodReply EXCEPT ![1] = 0],
      [GoodReply EXCEPT ![1] = 20],
      [GoodReply EXCEPT ![2] = 98],
      [GoodReply EXCEPT ![20] = 76],
      [GoodReply EXCEPT ![29] = 0],
      [GoodReply EXCEPT ![48] = 0],
      get_bytes_ref_of_struct_mut(
        HandshakeMessage(Len(PROTOCOL_HEADER), PROTOCOL_HEADER, PADDING, RemotePeerId, TheInfoHash)),
      SubSeq(GoodReply, 1, Len(GoodReply) - 1),
      <<>> }
HandshakeCalls ==
    {[fn |-> "call handshake", info_hash |-> TheInfoHash,
      tcp |-> [write_all |-> w, flush |-> f, incoming |-> b]] :
        w \in BOOLEAN, f \in BOOLEAN, b \in HandshakeIncoming}
\* The frames read_message is checked on: payloads of 0 and 1 bytes, of one
\* byte less than, exactly and one byte more than MAX_LENGTH, and of the
\* largest length prefix held here; a keep-alive and a failed read; each for
\* the message types init_peer and download_piece expect and for others.
FrameLengths == {1, 2, MAX_LENGTH, MAX_LENGTH + 1, MAX_LENGTH + 2, 2 * MAX_LENGTH, 2 ^ 30 + (2 ^ 30 - 1)}
FrameTypes == {Choke, Unchoke, PiecesBitfield, Piece, 255}
ExpectTypes == {Unchoke, PiecesBitfield, Piece}
ReadMessageFrames ==
    {Frame(t, Payload(n - 1, <<>>, 0, 0, NoBytes)) : n \in FrameLengths, t \in FrameTypes}
        \cup {KeepAlive, ReadFails}
ReadMessageCalls ==
    {[fn |-> "call read_message", frame |-> f, expect_type |-> e] :
        f \in ReadMessageFrames, e \in ExpectTypes}
FnInit ==
    /\ torrent = Torrent(20000, 1)
    /\ dpc = "function"
    /\ dresult = NoResult
    /\ peers_count = 0
    /\ threads_count = 0
    /\ socket = [w \in Workers |-> 0]
    /\ queue = <<>>
    /\ completed = <<>>
    /\ joined = <<>>
    /\ cancelled = FALSE
    /\ file_owner = 0
    /\ file_pos = 0
    /\ file_size = 0
    /\ writes = {}
    /\ pc = [w \in Workers |-> "unspawned"]
    /\ wres = [w \in Workers |-> NoResult]
    /\ has_pieces = [w \in Workers |-> <<>>]
    /\ trace = [w \in Workers |-> <<>>]
    /\ nreq = [w \in Workers |-> 0]
    /\ cur = [w \in Workers |-> NoPiece]
    /\ block_no = [w \in Workers |-> 0]
    /\ full_piece = [w \in Workers |-> <<>>]
    /\ outstanding = [w \in Workers |-> <<>>]
    /\ popped = <<>>
    /\ \/ fn_in \in NextBlockParamsCalls
       \/ fn_in \in PieceExistsCalls
       \/ fn_in \in GetPieceInfoCalls
       \/ fn_in \in ParseTorrentCalls
       \/ fn_in \in DecodeValueCalls
       \/ fn_in \in HandshakeCalls
       \/ fn_in \in ReadMessageCalls
    /\ fn_out = NoneParams

\* Peer::next_block_params(block_no, piece_size) is called and returns
CallNextBlockParams ==
    /\ fn_in.fn = "call next_block_params"
    /\ fn_out' \in next_block_params(fn_in.block_no, fn_in.piece_size)
    /\ fn_in' = [fn_in EXCEPT !.fn = "next_block_params"]
    /\ UNCHANGED <<dvars, fvars, svars, queue, popped, pc, wres>>

\* piece_exists(piece_index, pieces_bitmap) is called and returns
CallPieceExists ==
    /\ fn_in.fn = "call piece_exists"
    /\ fn_out' = piece_exists(fn_in.piece_index, fn_in.pieces_bitmap)
    /\ fn_in' = [fn_in EXCEPT !.fn = "piece_exists"]
    /\ UNCHANGED <<dvars, fvars, svars, queue, popped, pc, wres>>

\* TorrentInfo::get_piece_info(index) is called and returns
CallGetPieceInfo ==
    /\ fn_in.fn = "call get_piece_info"
    /\ fn_out' = get_piece_info(fn_in.t, fn_in.index)
    /\ fn_in' = [fn_in EXCEPT !.fn = "get_piece_info"]
    /\ UNCHANGED <<dvars, fvars, svars, queue, popped, pc, wres>>

\* parse_torrent(data) is called and returns (or panics)
CallParseTorrent ==
    /\ fn_in.fn = "call parse_torrent"
    /\ fn_out' \in parse_torrent(fn_in.data)
    /\ fn_in' = [fn_in EXCEPT !.fn = "parse_torrent"]
    /\ UNCHANGED <<dvars, fvars, svars, queue, popped, pc, wres>>

\* download_command runs up to the tracker request
CallDownloadCommand ==
    /\ fn_in.fn = "call download_command"
    /\ fn_out' \in download_command_torrent(fn_in.data)
    /\ fn_in' = [fn_in EXCEPT !.fn = "download_command"]
    /\ UNCHANGED <<dvars, fvars, svars, queue, popped, pc, wres>>

\* decode_value(input) is called and returns
CallDecodeValue ==
    /\ fn_in.fn = "call decode_value"
    /\ fn_out' = decode_value(fn_in.input)
    /\ fn_in' = [fn_in EXCEPT !.fn = "decode_value"]
    /\ UNCHANGED <<dvars, fvars, svars, queue, popped, pc, wres>>

\* bencode_value is called on the value decode_value returned
CallBencodeValue ==
    /\ fn_in.fn = "decode_value"
    /\ fn_out.ok
    /\ fn_out' = [ok |-> TRUE, value |-> fn_out.value, encoded |-> bencode_value(fn_out.value)]
    /\ fn_in' = [fn_in EXCEPT !.fn = "bencode_value"]
    /\ UNCHANGED <<dvars, fvars, svars, queue, popped, pc, wres>>

\* handshake(tcp, info_hash) is called and returns
CallHandshake ==
    /\ fn_in.fn = "call handshake"
    /\ fn_out' = handshake(fn_in.tcp, fn_in.info_hash)
    /\ fn_in' = [fn_in EXCEPT !.fn = "handshake"]
    /\ UNCHANGED <<dvars, fvars, svars, queue, popped, pc, wres>>

\* init_peer after `handshake(..)?` returned Ok: read_message(PiecesBitfield)
\* reads the 4-byte length prefix
InitPeerReadsOn ==
    /\ fn_in.fn = "handshake"
    /\ fn_out.result.tag = "Ok"
    /\ fn_out' = [fn_out EXCEPT !.io = Append(@, SocketRead(SubSeq(fn_in.tcp.incoming, 69, Min(72, Len(fn_in.tcp.incoming)))))]
    /\ fn_in' = [fn_in EXCEPT !.fn = "init_peer"]
    /\ UNCHANGED <<dvars, fvars, svars, queue, popped, pc, wres>>
\* read_message(tcp, expect_type) is called and returns (or panics)
CallReadMessage ==
    /\ fn_in.fn = "call read_message"
    /\ fn_out' = [result |-> read_message(fn_in.frame, fn_in.expect_type),
                  reads |-> read_message_reads(fn_in.frame, fn_in.expect_type)]
    /\ fn_in' = [fn_in EXCEPT !.fn = "read_message"]
    /\ UNCHANGED <<dvars, fvars, svars, queue, popped, pc, wres>>
FnNext ==
    \/ CallNextBlockParams
    \/ CallDecodeValue
    \/ CallBencodeValue
    \/ CallParseTorrent
    \/ CallDownloadCommand
    \/ CallPieceExists
    \/ CallGetPieceInfo
    \/ CallHandshake
    \/ InitPeerReadsOn
    \/ CallReadMessage

SpecFn == FnInit /\ [][FnNext]_vars

\* ------------------------------------------------------------- properties
AllPieces == 0..(pieces_count(torrent) - 1)
Spawned == 1..threads_count
PoppedTimes(index) == Cardinality({i \in DOMAIN popped : popped[i].index = index})
AllWorkersOk == \A w \in Spawned : wres[w].tag = "Ok"
Failed(w) == wres[w].tag \in {"Err", "Panic"}
\* download_command has returned out of, or after, the join loop
ReturnedFromJoin == dpc = "returned" /\ dresult.kind \notin {"tracker", "create_file"}
ReturnedError == ReturnedFromJoin /\ dresult.tag # "Ok"

\* C1: under every interleaving of the workers, any two pops of the work
\* queue that returned a piece (by one worker or by two) returned pieces of
\* different indices.
C1_NoPieceHandedOutTwice ==
    \A i, j \in DOMAIN popped : i # j => popped[i].index # popped[j].index

\* C1, its case: two workers have each popped a piece.
C1_TwoWorkersPopped ==
    \E i, j \in DOMAIN popped : popped[i].worker # popped[j].worker

\* C2: download_command returns success if and only if every worker returned
\* success and the work queue is empty at the return, for every peer list,
\* one with fewer peers than pieces and one with no peer included.
C2_SuccessIffAllOkAndQueueEmpty ==
    ReturnedFromJoin => ((dresult.tag = "Ok") <=> (AllWorkersOk /\ queue = <<>>))

\* C3: every write to the output file is made by the worker that popped the
\* piece, at offset index * piece_length, with the bytes that passed the
\* piece's hash check and of length min(piece_length, total_length - offset);
\* writes of different pieces do not overlap, none reaches past total_length,
\* and the file keeps the size total_length once it is pre-sized.
C3_WritesAreWholePiecesInPlace ==
    /\ \A r \in writes :
        /\ \E i \in DOMAIN popped : popped[i] = [worker |-> r.worker, index |-> r.index]
        /\ r.pos = r.index * torrent.piece_length
        /\ Sha1(r.data) = get_piece_info(torrent, r.index).info.hash
        /\ r.len = Min(torrent.piece_length, torrent.length - r.pos)
        /\ r.pos + r.len <= torrent.length
    /\ \A r, q \in writes :
        r.index # q.index => (r.pos + r.len <= q.pos \/ q.pos + q.len <= r.pos)
    /\ dpc \in {"spawn", "join"} \/ ReturnedFromJoin => file_size = torrent.length

\* C4 as stated: by the time download_command returns, every piece of the
\* queue has been popped exactly once.
C4_AllPoppedOnceAtReturn ==
    ReturnedFromJoin => \A index \in AllPieces : PoppedTimes(index) = 1

\* C4, amended: no piece is ever popped twice, and once a worker has
\* returned success the queue is empty and every piece has been popped
\* exactly once.
C4_PoppedOnceWhenAWorkerSucceeds ==
    /\ \A index \in AllPieces : PoppedTimes(index) <= 1
    /\ \A w \in Workers : wres[w].tag = "Ok" =>
            queue = <<>> /\ \A index \in AllPieces : PoppedTimes(index) = 1

\* C4, its case: a worker has returned success on a torrent of two pieces.
C4_WorkerOkAfterTwoPieces ==
    \E w \in Workers : wres[w].tag = "Ok" /\ Len(popped) >= 2

\* C5 as stated: when download_command returns a worker's failure, every
\* other worker has finished (none was cancelled).
C5_WaitsForAllWorkers ==
    ReturnedError => \A w \in Spawned : pc[w] = "done"

\* C5, amended: the join step that observes the first failed task returns
\* that failure at once, whatever the other tasks are doing; the JoinSet is
\* dropped with the return, which aborts every task suspended at an await,
\* and an aborted task never runs again: it is not waited for, and it
\* neither finishes nor writes.
C5_ReturnsFirstFailureAndAborts ==
    [][ /\ (dpc = "join" /\ joined' # joined /\ wres[Head(completed)].tag # "Ok")
            => /\ dpc' = "returned"
               /\ dresult' = wres[Head(completed)]
               /\ cancelled'
               /\ \A v \in Workers : pc'[v] \in Running
        /\ \A v \in Workers : pc[v] = "aborted" =>
               /\ pc'[v] = "aborted"
               /\ wres'[v] = wres[v]
               /\ \A r \in writes' \ writes : r.worker # v
      ]_vars

\* C5, its case: download_command has returned a failure while another
\* worker, not finished, was aborted.
C5_ReturnedWhileSiblingAborted ==
    ReturnedError /\ \E v \in Spawned : pc[v] = "aborted"

\* C6: if a worker ended with an error or a panic, download_command does not
\* return success; the error it returns is that of the first failed task in
\* completion order.
C6_FirstFailureReturned ==
    ReturnedFromJoin =>
        LET order == joined \o completed
            failed == {i \in DOMAIN order : Failed(order[i])}
        IN  /\ (\E w \in Workers : Failed(w)) => dresult.tag # "Ok"
            /\ dresult.tag # "Ok" =>
                 /\ failed # {}
                 /\ \E i \in failed :
                      /\ \A j \in failed : i <= j
                      /\ dresult = wres[order[i]]

\* C6, its case: two tasks failed and download_command returned.
C6_TwoFailedTasks ==
    ReturnedError /\ \E v, w \in Spawned : v # w /\ Failed(v) /\ Failed(w)

\* the messages of a session setup, in the order init_peer exchanges them
SetupSequence ==
    <<Tx("handshake", 0), Rx("handshake", 0), Rx("message", PiecesBitfield),
      Tx("message", Interested), Rx("message", Unchoke)>>
\* the places of a worker that holds a Peer (the session is Ready)
ReadyPlaces == {"pop", "request", "read_piece", "lock", "seek", "write"}
IsPrefix(a, b) == Len(a) <= Len(b) /\ \A i \in DOMAIN a : a[i] = b[i]
\* C7: a session is Ready only after exactly the exchange send-handshake,
\* read-handshake, read-bitfield, send-interested, read-unchoke; at every
\* moment the exchange so far is a prefix of that sequence; a request has
\* been sent only on a session that received unchoke; and a read of
\* init_peer either accepts a message of the awaited type or ends the
\* session (failed, or aborted with the JoinSet): no message is skipped.
C7_ReadyOnlyThroughSetupSequence ==
    /\ [](\A w \in Workers :
            /\ IsPrefix(trace[w], SetupSequence)
            /\ pc[w] \in ReadyPlaces => trace[w] = SetupSequence
            /\ nreq[w] > 0 => \E i \in DOMAIN trace[w] : trace[w][i] = Rx("message", Unchoke))
    /\ [][\A w \in Workers :
            (pc[w] \in {"read_bitfield", "read_unchoke"} /\ pc'[w] # pc[w])
            => \/ trace'[w] = Append(trace[w], Rx("message",
                        IF pc[w] = "read_bitfield" THEN PiecesBitfield ELSE Unchoke))
               \/ pc'[w] \in {"done", "aborted"} /\ wres'[w].tag # "Ok"]_vars

\* C7, its case: a session went through the setup and has sent a request.
C7_RequestSentOnReadySession ==
    \E w \in Workers : pc[w] = "read_piece" /\ nreq[w] > 0

\* C8: a session that has sent interested, or awaits unchoke, or is Ready,
\* holds a bitfield with a bit set; and a setup that fails for want of pieces
\* fails at the read of the bitfield, with interested not sent and the
\* worker finished without a Peer.
C8_NoPiecesFailsSetup ==
    /\ [](\A w \in Workers :
            (pc[w] \in ReadyPlaces \cup {"send_interested", "read_unchoke"}
                \/ \E i \in DOMAIN trace[w] : trace[w][i] = Tx("message", Interested))
            => (has_pieces[w] # <<>> /\ \E i \in DOMAIN has_pieces[w] : has_pieces[w][i] # 0))
    /\ [][\A w \in Workers :
            (wres'[w].kind = "no_pieces" /\ wres[w].tag = "None")
            => /\ pc[w] = "read_bitfield"
               /\ \A i \in DOMAIN trace[w] : trace[w][i] # Tx("message", Interested)
               /\ pc'[w] = "done"
               /\ nreq'[w] = 0]_vars

\* C8, its case: a worker's setup has failed on a bitfield with no bit set.
C8_SetupFailedOnEmptyBitfield ==
    \E w \in Workers : wres[w].tag = "Err" /\ wres[w].kind = "no_pieces"

\* C9: a session never has more than one request outstanding; a request is
\* about to be sent only when none is outstanding and every earlier block
\* has been read and validated; and the blocks consumed are, in order, the
\* answers to the requests in the order they were sent.
C9_OneRequestOutstanding ==
    \A w \in Workers :
        /\ Len(outstanding[w]) <= 1
        /\ pc[w] = "request" =>
              outstanding[w] = <<>> /\ Len(full_piece[w]) = block_no[w]
        /\ pc[w] = "read_piece" =>
              /\ Len(outstanding[w]) = 1
              /\ Len(full_piece[w]) = block_no[w] - 1
              /\ outstanding[w][1].index = cur[w].index
              /\ outstanding[w][1].begin = (block_no[w] - 1) * BLOCK_SIZE
        /\ \A k \in DOMAIN full_piece[w] :
              /\ full_piece[w][k].index = cur[w].index
              /\ full_piece[w][k].begin = (k - 1) * BLOCK_SIZE

\* C9, its case: the second request of a piece is outstanding, the first
\* block having been read.
C9_SecondRequestAfterFirstBlock ==
    \E w \in Workers :
        pc[w] = "read_piece" /\ block_no[w] = 2 /\ Len(full_piece[w]) = 1

\* C10: for every piece size s > 0 and block number k, next_block_params(k, s)
\* is (k * 16384, min(16384, s - k * 16384)) when k * 16384 < s, and None
\* otherwise.  (k * 16384 < s is written k <= (s - 1) \div 16384.)
C10_NextBlockParamsForEveryBlockNo ==
    fn_in.fn = "next_block_params" =>
        LET k == fn_in.block_no
            sz == fn_in.piece_size
        IN  fn_out = IF k <= (sz - 1) \div BLOCK_SIZE
                     THEN SomeParams(k * BLOCK_SIZE, Min(BLOCK_SIZE, sz - k * BLOCK_SIZE))
                     ELSE NoneParams

\* C11: a step that reads a piece message either appends to full_piece a
\* block whose index, offset and length are those of the request it answers
\* (the payload being 8 + that length bytes), or ends download_piece with
\* an error (or with the task), nothing being appended.
C11_OnlyTheRequestedBlockAppended ==
    [][\A w \in Workers :
        (pc[w] = "read_piece" /\ pc'[w] # pc[w]) =>
            LET req == Head(outstanding[w]) IN
            \/ /\ Len(full_piece'[w]) = Len(full_piece[w]) + 1
               /\ Front(full_piece'[w]) = full_piece[w]
               /\ Last(full_piece'[w]).index = req.index
               /\ Last(full_piece'[w]).begin = req.begin
               /\ Last(full_piece'[w]).length = req.length
               /\ pc'[w] \in {"request", "lock"}
            \/ /\ pc'[w] \in {"done", "aborted"}
               /\ wres'[w].tag # "Ok"
               /\ full_piece'[w] = <<>>]_vars

\* C11, its case: the first block of a piece of two blocks was accepted.
C11_FirstBlockAccepted ==
    \E w \in Workers : pc[w] = "request" /\ Len(full_piece[w]) = 1

\* the piece a worker popped last
LastPopped(w) ==
    LET mine == {i \in DOMAIN popped : popped[i].worker = w}
    IN  popped[CHOOSE i \in mine : \A j \in mine : j <= i].index

\* C12: a worker holds a downloaded piece (waits for the file, seeks,
\* writes) only when the SHA-1 of the accumulated blocks is the hash of the
\* metainfo; every write to the file carries bytes with that hash; and when
\* a worker failed on a hash mismatch, nothing of the piece it was
\* downloading was written.
C12_OnlyVerifiedPiecesReturned ==
    /\ \A w \in Workers : pc[w] \in {"lock", "seek", "write"} =>
            Sha1(full_piece[w]) = Sha1(TrueBlocks(cur[w].index, 0, cur[w].length))
    /\ \A r \in writes :
            r.data = TrueBlocks(r.index, 0, Min(torrent.piece_length,
                                 torrent.length - r.index * torrent.piece_length))
    /\ \A w \in Workers : (wres[w].tag = "Err" /\ wres[w].kind = "integrity") =>
            \A r \in writes : r.index # LastPopped(w)

\* C12, its case: a worker failed on a hash mismatch while another piece
\* was written to the file.
C12_HashMismatchAndAWrite ==
    /\ \E w \in Workers : wres[w].tag = "Err" /\ wres[w].kind = "integrity"
    /\ writes # {}

\* The bits of a byte, most significant first: bit j (0..7) of the byte is
\* the coefficient of 2^(7-j).
BitMsbFirst(byte, j) ==
    \E bits \in [0..7 -> {0, 1}] :
        /\ byte = bits[0] * 128 + bits[1] * 64 + bits[2] * 32 + bits[3] * 16
                  + bits[4] * 8 + bits[5] * 4 + bits[6] * 2 + bits[7]
        /\ bits[j] = 1
\* bit k of a bitfield is set: byte k/8 exists and its bit k mod 8 is set
BitSet(bitmap, k) ==
    k \div 8 < Len(bitmap) /\ BitMsbFirst(bitmap[k \div 8 + 1], k % 8)

\* C14: a block request is on the connection, or about to be written, only
\* for a piece whose bit is set in the peer's bitfield; and a download_piece
\* that fails because the bit is clear fails in the step that popped the
\* piece, no request having been written for it.
C14_RequestOnlyForPiecesThePeerHolds ==
    /\ [](\A w \in Workers :
            (pc[w] \in {"request", "read_piece"} \/ outstanding[w] # <<>>)
                => BitSet(has_pieces[w], cur[w].index))
    /\ [][\A w \in Workers :
            /\ nreq'[w] > nreq[w] => BitSet(has_pieces[w], cur[w].index)
            /\ (wres'[w].kind = "no_piece" /\ wres[w].tag = "None")
                   => /\ pc[w] = "pop"
                      /\ Len(popped') = Len(popped) + 1
                      /\ ~BitSet(has_pieces[w], Last(popped').index)
                      /\ outstanding[w] = <<>>]_vars

\* C14, its case: a worker popped a piece its peer does not hold and failed.
C14_FailedOnPieceNotHeld ==
    \E w \in Workers : wres[w].tag = "Err" /\ wres[w].kind = "no_piece"

\* C13: for every bitfield B and piece index k, piece_exists(k, B) is true
\* exactly when byte k / 8 exists in B and its bit k mod 8, counted from the
\* most significant bit, is set; an index past the end gives false.
C13_PieceExistsTestsMsbFirstBit ==
    fn_in.fn = "piece_exists" =>
        (fn_out <=> BitSet(fn_in.pieces_bitmap, fn_in.piece_index))

\* C13, its case: a piece of the second byte of a bitfield is found held.
C13_PieceOfSecondByteHeld ==
    fn_in.fn = "piece_exists" /\ fn_in.piece_index >= 8 /\ fn_out = TRUE

RECURSIVE SumOfPieceLengths(_, _)
SumOfPieceLengths(t, n) ==
    IF n = 0 THEN 0
    ELSE get_piece_info(t, n - 1).info.length + SumOfPieceLengths(t, n - 1)
\* ceil(length / piece_length): the least n with n * piece_length >= length
CeilPieces(t) ==
    CHOOSE n \in 0..t.length : n * t.piece_length >= t.length
                               /\ \A m \in 0..(n - 1) : m * t.piece_length < t.length

\* C15: on a well-formed single-file torrent get_piece_info(index) returns,
\* for index below the piece count, the index, the hash of that piece and
\* the length min(piece_length, total_length - index * piece_length), and an
\* error for any other index; so only the last piece is shorter than
\* piece_length and the lengths sum to total_length.
C15_GetPieceInfoLengths ==
    fn_in.fn = "get_piece_info" =>
        LET t == fn_in.t
            index == fn_in.index
            count == CeilPieces(t)
        IN  /\ index >= count => fn_out = InvalidIndex
            /\ index < count =>
                 /\ fn_out.tag = "Ok"
                 /\ fn_out.info.index = index
                 /\ fn_out.info.length =
                        Min(t.piece_length, t.length - index * t.piece_length)
                 /\ fn_out.info.hash = Sha1(TrueBlocks(index, 0, fn_out.info.length))
                 /\ fn_out.info.length > 0
                 /\ fn_out.info.length < t.piece_length => index = count - 1
            /\ SumOfPieceLengths(t, count) = t.length

\* C15, its case: the last piece of a torrent, shorter than piece_length.
C15_ShortLastPiece ==
    /\ fn_in.fn = "get_piece_info"
    /\ fn_out.tag = "Ok"
    /\ fn_in.index > 0
    /\ fn_out.info.length < fn_in.t.piece_length

\* n * a for a small n, as a sum
RECURSIVE WTimes(_, _)
WTimes(n, a) == IF n = 0 THEN Small(0) ELSE WAdd(a, WTimes(n - 1, a))
\* piece_length <= length, |pieces| >= 1 and |pieces| = ceil(length / piece_length)
ValidMetainfo(m) ==
    /\ ~WLess(m.length, m.piece_length)
    /\ m.pieces >= 1
    /\ m.piece_length # Small(0)
    /\ ~WLess(WTimes(m.pieces, m.piece_length), m.length)
    /\ WLess(WTimes(m.pieces - 1, m.piece_length), m.length)

\* C16: for all u32 values of length and piece_length, a Torrent that
\* parse_torrent returns has piece_length <= length, |pieces| >= 1 and
\* |pieces| = ceil(length / piece_length); and a single-file input that
\* violates this is rejected with an error: it is neither accepted nor
\* ends in a panic.
C16_ParseTorrentAcceptsOnlyValid ==
    (fn_in.fn = "parse_torrent" /\ fn_in.data.torrent_type = "SingleFile") =>
        /\ fn_out.tag = "Ok" => ValidMetainfo(fn_in.data)
        /\ ~ValidMetainfo(fn_in.data) => fn_out.tag = "Err"

\* C17: parse_torrent on a multi-file torrent returns an error, of a kind
\* no other rejection has, and download_command returns that error before
\* it contacts the tracker; neither panics.
C17_MultiFileIsUnsupportedError ==
    (fn_in.fn \in {"parse_torrent", "download_command"}
        /\ fn_in.data.torrent_type = "MultiFile") =>
        /\ fn_out.tag = "Err"
        /\ fn_out.kind \notin {"decode", "piece_length_larger", "count", "no_pieces"}

\* Inputs the properties name.
I0E == <<105, 48, 101>>    \* i0e
I52E == <<105, 53, 50, 101>>    \* i52e
IM52E == <<105, 45, 53, 50, 101>>    \* i-52e
UnorderedDict == <<100, 49, 58, 98, 105, 50, 101, 49, 58, 97, 105, 49, 101, 101>>    \* d1:bi2e1:ai1ee
UnorderedDictSorted == <<100, 49, 58, 97, 105, 49, 101, 49, 58, 98, 105, 50, 101, 101>>    \* d1:ai1e1:bi2ee
DuplicateKeyDict == <<100, 49, 58, 97, 105, 49, 101, 49, 58, 97, 105, 50, 101, 101>>    \* d1:ai1e1:ai2ee
IntKeyDict == <<100, 105, 49, 101, 105, 50, 101, 101>>    \* di1ei2ee
ListKeyDict == <<100, 108, 101, 105, 49, 101, 101>>    \* dlei1ee

\* C18: for every canonical bencoded input B, decode_value(B) succeeds and
\* bencode_value of the decoded value is B, byte for byte.
C18_CanonicalInputRoundTrips ==
    (fn_in.fn \in {"decode_value", "bencode_value"} /\ fn_in.input \in CanonicalInputs) =>
        /\ fn_in.fn = "decode_value" => fn_out.ok
        /\ fn_in.fn = "bencode_value" => fn_out.encoded = fn_in.input

\* the canonical integers among the inputs, with their values
CanonicalIntegers ==
    { <<I0E, 0>>, <<I52E, 52>>, <<IM52E, 0 - 52>> }

\* C19: decode_value rejects an integer with no digits, -0, a leading zero
\* before another digit, a '+' sign or no closing 'e'; it accepts the
\* canonical decimal form, with its value.
C19_OnlyCanonicalIntegersDecoded ==
    fn_in.fn = "decode_value" =>
        /\ fn_in.input \in IntegerInputs => ~fn_out.ok
        /\ \A c \in CanonicalIntegers :
               fn_in.input = c[1] => (fn_out.ok /\ fn_out.value = IntValue(c[2]))

StrictlyAscending(keys) ==
    \A i \in 1..(Len(keys) - 1) : BytesLess(keys[i], keys[i + 1])

\* C20: decode_value accepts a dict whose keys are out of order, fails on a
\* dict in which a key occurs twice and on one with a key that is not a byte
\* string; bencode_value writes the keys of a decoded dict in strictly
\* ascending byte order.
C20_DictKeysUniqueAndSorted ==
    /\ fn_in.fn = "decode_value" =>
        /\ fn_in.input = UnorderedDict => fn_out.ok
        /\ fn_in.input = DuplicateKeyDict => ~fn_out.ok
        /\ fn_in.input \in {IntKeyDict, ListKeyDict} => ~fn_out.ok
        /\ (fn_out.ok /\ fn_out.value.kind = "Dict") => StrictlyAscending(fn_out.value.keys)
    /\ fn_in.fn = "bencode_value" =>
        /\ fn_in.input = UnorderedDict => fn_out.encoded = UnorderedDictSorted
        /\ fn_out.value.kind = "Dict" => decode_value(fn_out.encoded).value = fn_out.value

\* Inputs the property below names: a complete value followed by more bytes,
\* a list or dict with no closing 'e', a string longer than what is left.
TrailingBytesInputs ==
    { <<105, 49, 101, 105, 50, 101>>,    \* i1ei2e
      <<49, 58, 97, 98>>,    \* 1:ab
      <<108, 101, 101>>,    \* lee
      <<100, 101, 48, 58>> }    \* de0:
UnterminatedInputs ==
    { <<108>>,    \* l
      <<108, 105, 49, 101>>,    \* li1e
      <<108, 108, 101>>,    \* lle
      <<100>>,    \* d
      <<100, 49, 58, 97, 105, 49, 101>> }    \* d1:ai1e
OverlongStringInputs ==
    { <<53, 58, 97, 98>>,    \* 5:ab
      <<49, 58>> }    \* 1:
ExtraBytes == {Zero, CharE, CharI, Colon, 97}
ProperPrefixes(input) == {SubSeq(input, 1, n) : n \in 0..(Len(input) - 1)}

\* C21: decode_value succeeds only when one value takes the whole input.  It
\* fails on a value followed by more bytes, on a list or dict that is not
\* closed and on a string whose length exceeds the bytes left; whenever it
\* accepts an input it accepts neither that input with one more byte nor a
\* proper prefix of it.
C21_WholeInputIsOneValue ==
    fn_in.fn = "decode_value" =>
        /\ fn_in.input \in TrailingBytesInputs \cup UnterminatedInputs \cup OverlongStringInputs
              => ~fn_out.ok
        /\ fn_out.ok =>
              /\ \A b \in ExtraBytes : ~decode_value(Append(fn_in.input, b)).ok
              /\ \A p \in ProperPrefixes(fn_in.input) : ~decode_value(p).ok
              /\ fn_out.tail = <<>>

C21_TrailingBytesRejected ==
    /\ fn_in.fn = "decode_value"
    /\ fn_in.input \in TrailingBytesInputs
    /\ decode_value_inner(fn_in.input).ok
    /\ ~fn_out.ok

\* The 68 bytes of a handshake by their positions on the wire (from 1):
\* the length byte, the protocol name, the info hash and the peer id.
WireLength(bytes) == bytes[1]
WireName(bytes) == SubSeq(bytes, 2, 20)
WireInfoHash(bytes) == SubSeq(bytes, 29, 48)
WirePeerId(bytes) == SubSeq(bytes, 49, 68)
Ops(io) == [i \in DOMAIN io |-> io[i].op]

\* C22: the handshake is written before anything is read; it returns Ok only
\* if 68 bytes were read whose length byte is 0x13, whose protocol name is
\* "BitTorrent protocol" and whose info hash is the one sent, and then with
\* bytes 48..67 of them as the peer id; after a reply that fails one of the
\* tests the session is failed and nothing more is done on the connection.
C22_HandshakeValidatedBeforeUse ==
    fn_in.fn \in {"handshake", "init_peer"} =>
        LET io == fn_out.io
            sent == io[1].bytes
            reply == io[3].bytes
            matches == /\ Len(reply) = 68
                       /\ WireLength(reply) = 19
                       /\ WireName(reply) = PROTOCOL_HEADER
                       /\ WireInfoHash(reply) = WireInfoHash(sent)
        IN  /\ IsPrefix(Ops(io), <<"write_all", "flush", "read_exact", "read_exact">>)
            /\ Len(sent) = 68 /\ WireInfoHash(sent) = fn_in.info_hash
            /\ fn_out.result.tag = "Ok" <=> (Len(io) >= 3 /\ matches)
            /\ fn_out.result.tag = "Ok" => fn_out.peer_id = WirePeerId(reply)
            /\ fn_out.result.tag # "Ok" => fn_in.fn = "handshake" /\ Len(io) <= 3

C22_ReplyWithAnotherInfoHash ==
    /\ fn_in.fn = "handshake"
    /\ Len(fn_out.io) = 3
    /\ WireLength(fn_out.io[3].bytes) = 19
    /\ WireName(fn_out.io[3].bytes) = PROTOCOL_HEADER
    /\ WireInfoHash(fn_out.io[3].bytes) # fn_in.info_hash
    /\ fn_out.result.tag = "Err"

\* the largest payload of a frame: 16 KiB + 8 bytes
PayloadCeiling == 16 * 1024 + 8

\* C23: for a frame with a length prefix of at least 1, read_message fails
\* with a protocol error and without reading the payload when the payload
\* (the prefix minus one) is longer than 16 KiB + 8 bytes or when the type
\* byte is not the expected type; otherwise, a payload of exactly 16 KiB + 8
\* bytes included, it reads the payload and returns it.
C23_OversizeOrUnexpectedFrameRejected ==
    (fn_in.fn = "read_message" /\ fn_in.frame.io = "ok" /\ fn_in.frame.length >= 1) =>
        LET payload == fn_in.frame.length - 1 IN
        IF payload > PayloadCeiling \/ fn_in.frame.type # fn_in.expect_type
        THEN /\ fn_out.result.tag = "Err"
             /\ error_class(fn_out.result.kind) = "protocol"
             /\ IsPrefix(fn_out.reads, <<4, 1>>)
        ELSE /\ fn_out.result.tag = "Ok"
             /\ fn_out.result.data.len = payload
             /\ fn_out.reads = IF payload > 0 THEN <<4, 1, payload>> ELSE <<4, 1>>

C23_LargestPayloadAccepted ==
    /\ fn_in.fn = "read_message"
    /\ fn_in.frame.length - 1 = PayloadCeiling
    /\ fn_out.result.tag = "Ok"
    /\ fn_out.reads = <<4, 1, PayloadCeiling>>

\* C28: a frame with length prefix 0 read where a message is expected makes
\* read_message return an error value, a protocol error like the one for any
\* other unexpected message.
C28_KeepAliveIsAnErrorValue ==
    (fn_in.fn = "read_message" /\ fn_in.frame.io = "ok" /\ fn_in.frame.length = 0) =>
        /\ fn_out.result.tag = "Err"
        /\ error_class(fn_out.result.kind) = "protocol"

Started == {w \in Workers : pc[w] # "unspawned"}

\* C24: once the tasks are spawned there are exactly
\* min(piece count, peer count) of them; task i holds the i-th address of
\* the tracker's list at every moment of its life, so no two tasks hold the
\* same position and no position past the first min(..) is held by any task.
C24_OneWorkerPerLeadingPeer ==
    LET W == Min(pieces_count(torrent), peers_count) IN
    /\ dpc \in {"request_peers", "create_file", "spawn"} => Started = {}
    /\ (dpc = "join" \/ ReturnedFromJoin) => Cardinality(Started) = W
    /\ \A w \in Started : socket[w] = w /\ socket[w] \in 1..W
    /\ \A v, w \in Started : v # w => socket[v] # socket[w]
    /\ \A w \in Workers \ Started : socket[w] = 0 /\ trace[w] = <<>>

C24_SparePeerNotContacted ==
    /\ dpc = "join"
    /\ peers_count > pieces_count(torrent)
    /\ Started = {1}
    /\ pc[1] = "read_piece"
    /\ socket[1] = 1

\* C25: a task seeks and writes only while it holds the file mutex, which it
\* keeps from before its seek until after its write: while a task is between
\* its seek and its write the cursor stays where its seek put it, and every
\* write starts at the offset of its own piece.
C25_SeekAndWriteInOneCriticalSection ==
    /\ \A w \in Workers : pc[w] \in {"seek", "write"} => file_owner = w
    /\ file_owner # 0 => pc[file_owner] \in {"seek", "write"}
    /\ \A w \in Workers : pc[w] = "write" => file_pos = cur[w].file_start_pos
    /\ \A wr \in writes : wr.pos = wr.index * torrent.piece_length

C25_WorkerWaitsWhileAnotherWrites ==
    \E v, w \in Workers :
        /\ v # w
        /\ pc[v] = "write" /\ pc[w] = "lock"
        /\ file_owner = v
        /\ cur[v].file_start_pos > 0
        /\ file_pos = cur[v].file_start_pos

\* The places at which a task's next step is an operation on its connection.
NetworkPlaces ==
    {"connect", "send_handshake", "read_handshake", "read_bitfield", "send_interested",
     "read_unchoke", "request", "read_piece"}

\* C26: a task about to connect, send or read on its connection does not
\* hold the file mutex, and neither does a task about to pop the queue or to
\* lock the file; the queue mutex is taken and released inside the pop.  So a
\* task waiting for the file mutex waits for a task that can seek or write
\* without waiting for anything: the two locks cannot deadlock the workers.
C26_NoLockHeldAcrossNetworkOrPop ==
    /\ \A w \in Workers : pc[w] \in NetworkPlaces \cup {"pop", "lock"} => file_owner # w
    /\ \A w \in Workers :
          (pc[w] = "lock" /\ ~cancelled) =>
              ENABLED (LockFile(w) \/ \E v \in Workers \ {w} : Seek(v) \/ Write(v))
    /\ \A w \in Workers : (pc[w] = "pop") => ENABLED Pop(w)

C26_PopAfterWriteWithFileFree ==
    \E w \in Workers :
        /\ pc[w] = "pop"
        /\ \E wr \in writes : wr.worker = w
        /\ file_owner = 0
        /\ \E v \in Workers \ {w} : pc[v] \in NetworkPlaces

\* C27: from the spawn on the queue is what is left of the initial list
\* after as many pops from its end as pieces were handed out: nothing is
\* ever added to it.  A piece is written by the task that popped it or by
\* none, so the piece a failed task had popped is downloaded by no other
\* task, and download_command does not return success once a task failed.
C27_QueueOnlyShrinks ==
    LET all == get_all_pieces_info(torrent) IN
    /\ dpc \in {"request_peers", "create_file", "spawn"} => (queue = <<>> /\ popped = <<>>)
    /\ (dpc = "join" \/ ReturnedFromJoin) =>
          /\ queue = SubSeq(all, 1, Len(queue))
          /\ Len(queue) + Len(popped) = Len(all)
          /\ \A i \in DOMAIN popped : popped[i].index = all[Len(all) - i + 1].index
    /\ \A i \in DOMAIN popped : \A j \in DOMAIN queue : queue[j].index # popped[i].index
    /\ \A r \in writes : \A i \in DOMAIN popped :
          popped[i].index = r.index => popped[i].worker = r.worker
    /\ \A w \in Workers :
          (Failed(w) /\ \E i \in DOMAIN popped : popped[i].worker = w) =>
              /\ \A i \in DOMAIN popped : popped[i].index = LastPopped(w) => popped[i].worker = w
              /\ \A r \in writes : r.index = LastPopped(w) => r.worker = w
    /\ (dpc = "returned" /\ \E w \in Workers : Failed(w)) => dresult.tag # "Ok"

C27_FailedPieceLeftUndone ==
    \E w \in Workers :
        /\ ReturnedError
        /\ wres[w].tag = "Err" /\ wres[w].kind \in {"integrity", "no_piece", "protocol", "network"}
        /\ \E i \in DOMAIN popped : popped[i].worker = w
        /\ \A r \in writes : r.index # LastPopped(w)
        /\ queue # <<>>

\* C29: a task that met an error (a timeout among them) has ended and holds
\* neither a connection nor the file; from then on it takes no step: it
\* sends and reads nothing, pops no piece, writes nothing and its result
\* stays the first error.
C29_NoStepAfterFirstError ==
    /\ [](\A w \in Workers : Failed(w) =>
              /\ pc[w] = "done"
              /\ nreq[w] = 0 /\ trace[w] = <<>> /\ outstanding[w] = <<>>
              /\ cur[w] = NoPiece
              /\ file_owner # w)
    /\ [][\A w \in Workers : Failed(w) =>
              /\ pc'[w] = pc[w]
              /\ wres'[w] = wres[w]
              /\ nreq'[w] = nreq[w] /\ trace'[w] = trace[w] /\ outstanding'[w] = outstanding[w]
              /\ \A i \in DOMAIN popped' : popped'[i].worker = w => i \in DOMAIN popped
              /\ \A r \in writes' \ writes : r.worker # w]_vars

C29_SiblingWorksAfterAFailure ==
    \E w, v \in Workers :
        /\ Failed(w) /\ wres[w].kind = "network"
        /\ \E i \in DOMAIN popped : popped[i].worker = w
        /\ v # w /\ pc[v] = "write"
        /\ dpc = "join"

\* download_command returned success with the work done: every task left
\* its loop on an empty pop, the queue is empty, and every piece was popped
\* once and given to one write.
Success ==
    /\ dpc = "returned" /\ dresult.tag = "Ok"
    /\ threads_count >= 1
    /\ \A w \in Spawned : pc[w] = "done" /\ wres[w].tag = "Ok"
    /\ queue = <<>>
    /\ \A i \in AllPieces :
          PoppedTimes(i) = 1 /\ Cardinality({r \in writes : r.index = i}) = 1

\* the output file could not be created, or a seek or a write on it failed
FileFailed ==
    \/ dresult.kind = "create_file"
    \/ \E w \in Workers : wres[w].tag = "Err" /\ wres[w].kind = "file"

\* C30 as stated: with at least one peer and well-behaved peers, under fair
\* scheduling download_command eventually returns success with the work
\* done.
C30_EventuallySuccess == <>Success

\* C30, amended: with at least one peer and well-behaved peers, under fair
\* scheduling download_command eventually returns, and it returns success
\* with the work done unless an operation on the output file failed; it
\* never returns success otherwise.
C30_EventuallySuccessUnlessFileFails ==
    /\ <>(dpc = "returned" /\ (Success \/ FileFailed))
    /\ [](dpc = "returned" => (dresult.tag = "Ok" <=> Success))
    /\ []((dpc = "returned" /\ ~FileFailed) => Success)

C30_TwoWorkersDrainedTheQueue ==
    /\ Success
    /\ threads_count >= 2
    /\ \E r, q \in writes : r.worker # q.worker

====
